---- MODULE Spec2Model ----
(***************************************************************************)
(* A model of the Automated Checksum Verification browser extension:       *)
(*   - the page scanner  (extractPattern, hasMix, diversity, filter,       *)
(*     isExtensionDangerous, inspectPageAndSendInfo),                      *)
(*   - the streaming verifier (verifyFile, computeHash, processChunk),     *)
(*   - the background context (runtime.onMessage, downloads.onCreated,     *)
(*     downloads.onChanged) and the storage shared by the two contexts,    *)
(*   - the status text of the popup and its delete link.                   *)
(*                                                                         *)
(* The repository ships two variants of the content script,                *)
(* src/scripts/content.js and src/unnamed/part_000.  They differ in filter *)
(* (part_000 adds the diversity test) and in verifyFile (content.js stops  *)
(* at the first matching algorithm, part_000 computes every declared       *)
(* algorithm and compares once).  The variable `variant` says which of the *)
(* two scripts is running.                                                 *)
(*                                                                         *)
(* A JavaScript string is modelled as a sequence of one-character strings. *)
(***************************************************************************)
EXTENDS Integers, Sequences, FiniteSets, TLC

VARIABLES
    variant,    \* which content script runs: "content" or "part000"
    \* ---- the pure function filter, applied to drawn inputs
    fin,        \* the set of strings first handed to filter
    fprev,      \* the argument of the latest application of filter
    fout,       \* the result of the latest application of filter
    fcount,     \* how many times filter has been applied
    \* ---- the page scan of one content context
    page,       \* the document: [body, anchors]
    scan,       \* inspectPageAndSendInfo: its position and its locals
    outbox,     \* the messages the content context has sent to the background
    \* ---- the verifier of one content context, and the shared storage
    cryptoLoaded, \* whether CryptoJS is defined in the content context
    ver,        \* the calls of verifyFile, in the order they were made
    storage,    \* chrome.storage.local: [linkToMonitor, downloads]
    \* ---- the browser, the background context and the popup's file input
    items,      \* the browser's downloads: identifier -> state
    tasks,      \* the storage requests of background handlers, oldest first
    tabMsgs,    \* the messages sent to the content context, oldest first
    listeners,  \* the "change" listeners added to fileInput, in order
    selections, \* how many times the user has selected a file
    delivered,  \* how many messages of outbox the background has received
    popup,      \* the popup's status text: [status, onclick]
    console,    \* the messages of unknown type the two contexts have logged
    alarms      \* the names of the alarms that are armed

fvars == <<fin, fprev, fout, fcount>>
svars == <<page, scan, outbox>>
vvars == <<cryptoLoaded, ver, storage>>
qvars == <<items, tasks, tabMsgs, listeners, selections, delivered>>
bvars == <<qvars, popup, console, alarms>>

vars == <<variant, fvars, svars, vvars, bvars>>

Variants == {"content", "part000"}

(***************************************************************************)
(* Strings                                                                 *)
(***************************************************************************)

LowerHexLetters == {"a", "b", "c", "d", "e", "f"}
UpperHexLetters == {"A", "B", "C", "D", "E", "F"}
Digits == {"0", "1", "2", "3", "4", "5", "6", "7", "8", "9"}
WhiteSpace == {" ", "\n", "\t"}

\* String.prototype.toLowerCase on one character (the letters the model uses).
toLowerCaseChar(c) ==
    CASE c = "A" -> "a" [] c = "B" -> "b" [] c = "C" -> "c" [] c = "D" -> "d"
      [] c = "E" -> "e" [] c = "F" -> "f" [] c = "S" -> "s" [] c = "H" -> "h"
      [] c = "M" -> "m" [] c = "R" -> "r" [] c = "G" -> "g"
      [] OTHER -> c

\* String.prototype.toLowerCase
toLowerCase(s) == [i \in 1..Len(s) |-> toLowerCaseChar(s[i])]

\* String.prototype.replace(c, ''): with a string pattern only the FIRST
\* occurrence of c is removed.
replaceFirst(s, c) ==
    IF \E i \in 1..Len(s) : s[i] = c
    THEN LET k == CHOOSE i \in 1..Len(s) :
                      s[i] = c /\ \A j \in 1..(i - 1) : s[j] # c
         IN  SubSeq(s, 1, k - 1) \o SubSeq(s, k + 1, Len(s))
    ELSE s

\* String.prototype.endsWith
endsWith(s, suffix) ==
    /\ Len(suffix) <= Len(s)
    /\ SubSeq(s, Len(s) - Len(suffix) + 1, Len(s)) = suffix

\* The set of characters of a string.
CharsOf(s) == {s[i] : i \in 1..Len(s)}

\* The string of length n that repeats pat.
Repeat(pat, n) == [i \in 1..n |-> pat[((i - 1) % Len(pat)) + 1]]

(***************************************************************************)
(* A JavaScript Set: a sequence without repetitions, in insertion order.   *)
(***************************************************************************)

Range(seq) == {seq[i] : i \in 1..Len(seq)}

\* Set.prototype.add
SetAdd(set, x) == IF x \in Range(set) THEN set ELSE Append(set, x)

\* Adding the elements of a sequence one by one.
RECURSIVE SetAddAll(_, _)
SetAddAll(set, xs) ==
    IF xs = <<>> THEN set ELSE SetAddAll(SetAdd(set, Head(xs)), Tail(xs))

(***************************************************************************)
(* Page scanner: the two patterns                                          *)
(***************************************************************************)

\* The {32,} of REGEXP_CHECKSUM_VALUE.
CHECKSUM_VALUE_MIN_RUN == 32

\* The least element of a non-empty set of integers.
Min(S) == CHOOSE x \in S : \A y \in S : x <= y

\* The number of consecutive characters of text, from position i, in class.
RunLen(text, i, class) ==
    LET stops == {j \in i..Len(text) : text[j] \notin class}
    IN  IF stops = {} THEN (IF i <= Len(text) THEN Len(text) - i + 1 ELSE 0)
        ELSE Min(stops) - i

\* REGEXP_CHECKSUM_VALUE = /(?:[a-f0-9]{32,}|[A-F0-9]{32,})/g at position i:
\* the length of the match, 0 when there is none.
MatchChecksumValue(text, i) ==
    LET lower == RunLen(text, i, LowerHexLetters \cup Digits)
        upper == RunLen(text, i, UpperHexLetters \cup Digits)
    IN  IF lower >= CHECKSUM_VALUE_MIN_RUN THEN lower
        ELSE IF upper >= CHECKSUM_VALUE_MIN_RUN THEN upper
        ELSE 0

\* Whether `word` stands in text at position i.
LooksAt(text, i, word) ==
    /\ i + Len(word) - 1 <= Len(text)
    /\ SubSeq(text, i, i + Len(word) - 1) = word

\* (1|256|2|384|512) at position i: the alternatives in the pattern's order.
MatchAlgoNumber(text, i) ==
    IF LooksAt(text, i, <<"1">>) THEN 1
    ELSE IF LooksAt(text, i, <<"2", "5", "6">>) THEN 3
    ELSE IF LooksAt(text, i, <<"2">>) THEN 1
    ELSE IF LooksAt(text, i, <<"3", "8", "4">>) THEN 3
    ELSE IF LooksAt(text, i, <<"5", "1", "2">>) THEN 3
    ELSE 0

\* REGEXP_CHECKSUM_ALGO =
\*   /((sha|SHA)(\s*-?\s*)(1|256|2|384|512)|((md|MD)5))/g at position i.
MatchChecksumAlgo(text, i) ==
    IF LooksAt(text, i, <<"s", "h", "a">>) \/ LooksAt(text, i, <<"S", "H", "A">>)
    THEN LET j1 == i + 3
             j2 == j1 + RunLen(text, j1, WhiteSpace)
             j3 == IF LooksAt(text, j2, <<"-">>) THEN j2 + 1 ELSE j2
             j4 == j3 + RunLen(text, j3, WhiteSpace)
             n  == MatchAlgoNumber(text, j4)
         IN  IF n > 0 THEN (j4 - i) + n ELSE 0
    ELSE IF LooksAt(text, i, <<"m", "d", "5">>) \/ LooksAt(text, i, <<"M", "D", "5">>)
    THEN 3
    ELSE 0

REGEXP_CHECKSUM_VALUE == "REGEXP_CHECKSUM_VALUE"
REGEXP_CHECKSUM_ALGO == "REGEXP_CHECKSUM_ALGO"

MatchLen(pattern, text, i) ==
    IF pattern = REGEXP_CHECKSUM_VALUE
    THEN MatchChecksumValue(text, i)
    ELSE MatchChecksumAlgo(text, i)

\* The first character of every match of the pattern.
FirstChars(pattern) ==
    IF pattern = REGEXP_CHECKSUM_VALUE
    THEN LowerHexLetters \cup UpperHexLetters \cup Digits
    ELSE {"s", "S", "m", "M"}

\* The positions of text at which the pattern matches.
MatchStarts(pattern, text) ==
    {j \in 1..Len(text) :
        text[j] \in FirstChars(pattern) /\ MatchLen(pattern, text, j) > 0}

\* The matches at the positions `starts`, from position i on, left to right,
\* each search resuming after the previous match.
RECURSIVE ExecFrom(_, _, _, _)
ExecFrom(pattern, text, starts, i) ==
    LET ahead == {j \in starts : j >= i}
    IN  IF ahead = {} THEN <<>>
        ELSE LET j == Min(ahead)
                 n == MatchLen(pattern, text, j)
             IN  <<SubSeq(text, j, j + n - 1)>>
                 \o ExecFrom(pattern, text, starts, j + n)

\* while ((r = pattern.exec(text)) !== null): every match, from position i.
ExecAll(pattern, text, i) ==
    ExecFrom(pattern, text, MatchStarts(pattern, text), i)

(***************************************************************************)
(* Page scanner: extractPattern                                            *)
(*                                                                         *)
(* An element is a record [nodeName, innerText, children, throws]:         *)
(* `throws` says that reading the element's innerText raises an error.     *)
(***************************************************************************)

NoTextNodeNames == {"SCRIPT", "STYLE", "NOSCRIPT"}

\* A normalization that only lower-cases.
NormalizeMatchKeepsHyphen(m) == toLowerCase(m)

\* r[0].toLowerCase().replace('-', '')
NormalizeMatch(m) == replaceFirst(toLowerCase(m), "-")

RECURSIVE MapNormalize(_)
MapNormalize(ms) ==
    IF ms = <<>> THEN <<>>
    ELSE <<NormalizeMatch(Head(ms))>> \o MapNormalize(Tail(ms))

RECURSIVE extractPattern(_, _, _)
RECURSIVE extractChildren(_, _, _)

\* for (child of elem.children) for (c of extractPattern(child, pattern)) add
extractChildren(set, children, pattern) ==
    IF children = <<>> THEN set
    ELSE extractChildren(
             SetAddAll(set, extractPattern(Head(children), pattern, FALSE)),
             Tail(children), pattern)

\* Whether reading the text of elem, or of an element below it, raises an
\* error during the traversal.
RECURSIVE AnyThrows(_, _)
AnyThrows(elem, root) ==
    \/ /\ (Len(elem.children) = 0 \/ root)
       /\ elem.nodeName \notin NoTextNodeNames
       /\ elem.throws
    \/ \E k \in DOMAIN elem.children : AnyThrows(elem.children[k], FALSE)

\* A traversal whose errors reach the outermost call, which returns the
\* empty set.
extractPatternLetsErrorsThrough(elem, pattern, root) ==
    IF AnyThrows(elem, root)
    THEN <<>>
    ELSE LET own == IF (Len(elem.children) = 0 \/ root)
                       /\ elem.nodeName \notin NoTextNodeNames
                    THEN SetAddAll(<<>>,
                             MapNormalize(ExecAll(pattern, elem.innerText, 1)))
                    ELSE <<>>
         IN  extractChildren(own, elem.children, pattern)

extractPattern(elem, pattern, root) ==
    LET readsText == /\ (Len(elem.children) = 0 \/ root)
                     /\ elem.nodeName \notin NoTextNodeNames
    IN  IF readsText /\ elem.throws
        THEN <<>>                                    \* catch: return new Set()
        ELSE LET own == IF readsText
                        THEN SetAddAll(<<>>,
                                 MapNormalize(ExecAll(pattern, elem.innerText, 1)))
                        ELSE <<>>
             IN  extractChildren(own, elem.children, pattern)

(***************************************************************************)
(* Page scanner: hasMix, diversity, filter                                 *)
(***************************************************************************)

CHECKSUM_VALUE_SIZE == {32, 40, 56, 64, 96, 128}

\* hasMix without its test for a digit.
hasMixNoDigitTest(elem) ==
    \E i \in 1..Len(elem) : elem[i] \in LowerHexLetters \cup UpperHexLetters

\* hasMix: /([a-f]|[A-F])/.test(elem) && /([0-9])/.test(elem)
hasMix(elem) ==
    /\ \E i \in 1..Len(elem) : elem[i] \in LowerHexLetters \cup UpperHexLetters
    /\ \E i \in 1..Len(elem) : elem[i] \in Digits

\* diversity (part_000 only): more than `limit` distinct characters.
diversity(checksum, limit) == Cardinality(CharsOf(checksum)) > limit

\* The limit part_000's filter passes to diversity.
DIVERSITY_LIMIT == 10

\* The test of content.js's filter for one element.
filterKeeps(elem) == Len(elem) \in CHECKSUM_VALUE_SIZE /\ hasMix(elem)

\* The test of part_000's filter for one element.
filterDivKeeps(elem) ==
    /\ Len(elem) \in CHECKSUM_VALUE_SIZE
    /\ hasMix(elem)
    /\ diversity(elem, DIVERSITY_LIMIT)

\* A filter that loses the first element it would have kept.
filterDropsFirst(set) ==
    LET kept == SelectSeq(set, filterKeeps)
    IN  IF kept = <<>> THEN <<>> ELSE Tail(kept)

\* filter of src/scripts/content.js: length and mixed-character tests.
filter(set) == SelectSeq(set, filterKeeps)

\* filter of src/unnamed/part_000: length, mixed-character and diversity tests.
filterDiv(set) == SelectSeq(set, filterDivKeeps)

\* The filter of the running content script.
filterOf(v, set) == IF v = "content" THEN filter(set) ELSE filterDiv(set)

(***************************************************************************)
(* Inputs for filter                                                       *)
(***************************************************************************)

\* Lengths at and next to the accepted digest lengths.
CandidateLengths == {32, 33, 40, 56, 64, 96, 128}

\* Contents: only digits, only letters, two distinct characters, exactly 10
\* distinct characters (upper case) and exactly 11 distinct characters.
CandidatePatterns ==
    { <<"0">>,
      <<"a">>,
      <<"a", "0">>,
      <<"0", "1", "2", "3", "4", "5", "6", "7", "8", "A">>,
      <<"0", "1", "2", "3", "4", "5", "6", "7", "8", "9", "a">> }

CandidatePool ==
    {Repeat(p, n) : p \in CandidatePatterns, n \in CandidateLengths}

MaxFilterInput == 2

\* The JavaScript Sets of at most k elements of S.
RECURSIVE SetsUpTo(_, _)
SetsUpTo(S, k) ==
    IF k = 0 THEN {<<>>}
    ELSE LET smaller == SetsUpTo(S, k - 1)
         IN  smaller \cup
             {Append(T, x) : T \in {U \in smaller : Len(U) = k - 1}, x \in S}

FilterInputs ==
    {T \in SetsUpTo(CandidatePool, MaxFilterInput) :
        Cardinality(Range(T)) = Len(T)}

(***************************************************************************)
(* Specification SpecFilter: filter applied, and applied again to its own  *)
(* result, on drawn inputs.                                                *)
(***************************************************************************)

\* The parts of the state a specification does not use stay as they start.
FilterIdle == fin = <<>> /\ fprev = <<>> /\ fout = <<>> /\ fcount = 0

ScanIdle ==
    /\ page = [body |-> [nodeName |-> "BODY", innerText |-> <<>>,
                         children |-> <<>>, throws |-> FALSE],
               anchors |-> <<>>]
    /\ scan = [pc |-> "done", checksumValues |-> <<>>, checksumAlgos |-> <<>>,
               urls |-> <<>>]
    /\ outbox = <<>>

VerifyIdle ==
    /\ cryptoLoaded = TRUE
    /\ ver = <<>>
    /\ storage = [linkToMonitor |-> <<>>, downloads |-> <<>>]

\* The popup as the content script builds it: the status text is empty and
\* there is no delete link.  onclick is the set of download identifiers the
\* delete link's handler would ask to remove: empty when there is no link.
InitialPopup == [status |-> "initial", onclick |-> {}]

BackgroundIdle ==
    /\ items = <<>>
    /\ tasks = <<>>
    /\ tabMsgs = <<>>
    /\ listeners = <<>>
    /\ selections = 0
    /\ delivered = 0
    /\ popup = InitialPopup
    /\ console = <<>>
    /\ alarms = {}

InitFilter ==
    /\ variant \in Variants
    /\ fin \in FilterInputs
    /\ fprev = fin
    /\ fout = fin
    /\ fcount = 0
    /\ ScanIdle
    /\ VerifyIdle
    /\ BackgroundIdle

ApplyFilter ==
    /\ fcount < 2
    /\ fprev' = fout
    /\ fout' = filterOf(variant, fout)
    /\ fcount' = fcount + 1
    /\ UNCHANGED <<variant, fin, svars, vvars, bvars>>

NextFilter == ApplyFilter

SpecFilter == InitFilter /\ [][NextFilter]_vars

\* C8: every string filter returns has a length in {32, 40, 56, 64, 96, 128},
\* holds a hex letter and a decimal digit, and was in filter's input; so a
\* string of another length (33), of digits only or of letters only is never
\* returned.
C8_FilterOutput ==
    fcount >= 1 =>
        /\ \A i \in 1..Len(fout) :
              /\ Len(fout[i]) \in {32, 40, 56, 64, 96, 128}
              /\ CharsOf(fout[i]) \cap (LowerHexLetters \cup UpperHexLetters) # {}
              /\ CharsOf(fout[i]) \cap Digits # {}
              /\ Len(fout[i]) # 33
              /\ ~ (CharsOf(fout[i]) \subseteq Digits)
              /\ ~ (CharsOf(fout[i]) \subseteq LowerHexLetters \cup UpperHexLetters)
        /\ Range(fout) \subseteq Range(fprev)

\* C8's case: filter has run on an input holding a string of length 33 and a
\* string of 64 zeros, and dropped them while keeping nothing or something.
C8_Witness ==
    /\ fcount = 1
    /\ \E i \in 1..Len(fin) : Len(fin[i]) = 33
    /\ \E i \in 1..Len(fin) : fin[i] = Repeat(<<"0">>, 64)
    /\ fout = <<>>

\* C10: filter is idempotent: applying filter to filter's result returns
\* that result unchanged.
C10_FilterIdempotent == fcount = 2 => fout = fprev

\* C10's case: filter has run twice, the first run dropped a string and
\* kept another.
C10_Witness ==
    /\ fcount = 2
    /\ fprev # <<>>
    /\ fprev # fin

(***************************************************************************)
(* Page scanner: isExtensionDangerous and inspectPageAndSendInfo           *)
(***************************************************************************)

DANGEROUS_EXTENSIONS ==
    { <<"d", "m", "g">>,
      <<"e", "x", "e">>,
      <<"m", "s", "i">>,
      <<"p", "k", "g">>,
      <<"i", "s", "o">>,
      <<"z", "i", "p">>,
      <<"t", "a", "r", ".", "x", "z">>,
      <<"t", "a", "r", ".", "g", "z">>,
      <<"t", "a", "r", ".", "b", "z", "2">>,
      <<"t", "a", "r">>,
      <<"d", "e", "b">>,
      <<"r", "p", "m">> }

\* DANGEROUS_EXTENSIONS.reduce((acc, x) => acc || filename.endsWith(x), false)
isExtensionDangerous(filename) ==
    \E x \in DANGEROUS_EXTENSIONS : endsWith(filename, x)

\* link.hasAttribute("href") && isExtensionDangerous(link.href)
linkQualifies(link) == link.hasHref /\ isExtensionDangerous(link.href)

\* document.querySelectorAll("a").forEach(... urls.push(link.href))
RECURSIVE collectUrls(_)
collectUrls(anchors) ==
    IF anchors = <<>> THEN <<>>
    ELSE (IF linkQualifies(Head(anchors)) THEN <<Head(anchors).href>> ELSE <<>>)
         \o collectUrls(Tail(anchors))

\* A scan that sends as soon as it has checksum values.
inspectSendsWithoutUrls(checksumValues, urls) == Len(checksumValues) # 0

\* if (checksumValues.size !== 0) { ... if (urls.length !== 0) { send } }
inspectSends(checksumValues, urls) ==
    Len(checksumValues) # 0 /\ Len(urls) # 0

\* inspectPageAndSendInfo, after its sleep(200).
inspectPageAndSendInfo ==
    /\ scan.pc = "sleeping"
    /\ LET checksumValues ==
               filterOf(variant,
                        extractPattern(page.body, REGEXP_CHECKSUM_VALUE, TRUE))
           checksumAlgos ==
               extractPattern(page.body, REGEXP_CHECKSUM_ALGO, TRUE)
           urls == collectUrls(page.anchors)
       IN  /\ scan' = [pc |-> "done", checksumValues |-> checksumValues,
                       checksumAlgos |-> checksumAlgos, urls |-> urls]
           /\ outbox' =
                  IF inspectSends(checksumValues, urls)
                  THEN Append(outbox,
                              [type |-> "download", urls |-> urls,
                               checksum |-> [type |-> checksumAlgos,
                                             value |-> checksumValues]])
                  ELSE outbox
    /\ UNCHANGED <<variant, page, fvars, vvars, bvars>>

(***************************************************************************)
(* Pages                                                                   *)
(***************************************************************************)

HexDigits16 == <<"0", "1", "2", "3", "4", "5", "6", "7", "8", "9", "a", "b", "c", "d", "e", "f">>

TextPlain == <<"h", "e", "l", "l", "o">>
TextGood == <<"M", "D", "5", " ">> \o Repeat(HexDigits16, 32)
TextUpper ==
    <<"S", "H", "A", " ", "-", " ", "2", "5", "6", "\n">>
    \o Repeat(<<"0", "1", "2", "3", "4", "5", "6", "7", "8", "9", "A", "B", "C", "D", "E", "F">>, 40)
TextLowDiversity == <<"s", "h", "a", "-", "1", " ">> \o Repeat(<<"a", "0">>, 32)
TextZeros == Repeat(<<"0">>, 32)
Text33 == Repeat(HexDigits16, 33)

Leaf(name, text) ==
    [nodeName |-> name, innerText |-> text, children |-> <<>>, throws |-> FALSE]

\* The rendered text of a list of elements: the browser leaves out the
\* text of script, style and noscript elements and separates blocks.
RECURSIVE JoinTexts(_)
JoinTexts(elems) ==
    IF elems = <<>> THEN <<>>
    ELSE (IF Head(elems).nodeName \in NoTextNodeNames
          THEN <<>>
          ELSE Head(elems).innerText \o <<"\n">>)
         \o JoinTexts(Tail(elems))

Parent(name, kids) ==
    [nodeName |-> name, innerText |-> JoinTexts(kids), children |-> kids,
     throws |-> FALSE]

ElementPool ==
    { Leaf("P", TextPlain),
      Leaf("P", TextGood),
      Leaf("P", TextUpper),
      Leaf("P", TextLowDiversity),
      Leaf("SCRIPT", TextGood),
      [Leaf("P", TextGood) EXCEPT !.throws = TRUE],
      Parent("DIV", <<Leaf("P", Text33), Leaf("P", TextZeros)>>) }

MaxChildren == 2

\* The sequences of at most k elements of S.
RECURSIVE SeqsUpTo(_, _)
SeqsUpTo(S, k) ==
    IF k = 0 THEN {<<>>}
    ELSE LET smaller == SeqsUpTo(S, k - 1)
         IN  smaller \cup
             {Append(T, x) : T \in {U \in smaller : Len(U) = k - 1}, x \in S}

Anchor(has, href) == [hasHref |-> has, href |-> href]

UrlZip == <<"u", "/", "f", ".", "z", "i", "p">>
UrlTarGz == <<"u", "/", "f", ".", "t", "a", "r", ".", "g", "z">>
UrlTxt == <<"u", "/", "f", ".", "t", "x", "t">>
\* A path that ends in the letters of an extension without the dot, and a
\* path with an extension followed by a query string.
UrlNoDot == <<"u", "/", "f", "z", "i", "p">>
UrlQuery == <<"u", "/", "f", ".", "z", "i", "p", "?", "v">>

AnchorLists ==
    { <<>>,
      <<Anchor(TRUE, UrlTxt)>>,
      <<Anchor(FALSE, <<>>)>>,
      <<Anchor(TRUE, UrlZip)>>,
      <<Anchor(TRUE, UrlTxt), Anchor(TRUE, UrlTarGz), Anchor(TRUE, UrlZip)>>,
      <<Anchor(TRUE, UrlNoDot), Anchor(TRUE, UrlQuery)>> }

Pages ==
    {[body |-> Parent("BODY", kids), anchors |-> as] :
        kids \in SeqsUpTo(ElementPool, MaxChildren), as \in AnchorLists}

(***************************************************************************)
(* Specification SpecScan: one page load, scanned by either script.        *)
(***************************************************************************)

InitScan ==
    /\ variant \in Variants
    /\ page \in Pages
    /\ scan = [pc |-> "sleeping", checksumValues |-> <<>>,
               checksumAlgos |-> <<>>, urls |-> <<>>]
    /\ outbox = <<>>
    /\ FilterIdle
    /\ VerifyIdle
    /\ BackgroundIdle

NextScan == inspectPageAndSendInfo

SpecScan == InitScan /\ [][NextScan]_vars

\* The "download" records sent so far.
SentRecords == {outbox[i] : i \in {j \in 1..Len(outbox) : outbox[j].type = "download"}}

\* C7: the page scan sends a "download" record exactly when the filtered set
\* of checksum values is not empty and a qualifying download URL was
\* collected; it then sends exactly one, carrying those values and URLs.
C7_EmitRule ==
    scan.pc = "done" =>
        /\ (SentRecords # {}) <=>
               (Len(scan.checksumValues) # 0 /\ Len(scan.urls) # 0)
        /\ Len(outbox) <= 1
        /\ \A r \in SentRecords :
              /\ r.urls = scan.urls /\ r.urls # <<>>
              /\ r.checksum.value = scan.checksumValues
              /\ r.checksum.value # <<>>
        /\ (~ \E i \in 1..Len(page.anchors) :
                 /\ page.anchors[i].hasHref
                 /\ \E x \in DANGEROUS_EXTENSIONS :
                        endsWith(page.anchors[i].href, x))
             => outbox = <<>>

\* C7's cases: a page with a plausible checksum and no qualifying link was
\* scanned and nothing was sent ...
C7_Witness ==
    /\ scan.pc = "done"
    /\ Len(scan.checksumValues) # 0
    /\ Len(scan.urls) = 0
    /\ page.anchors # <<>>
    /\ outbox = <<>>

\* C9: every checksum value of an emitted record has at least 11 distinct
\* characters (the filter rejects candidates with fewer).
C9_DiversityOfEmitted ==
    \A r \in SentRecords :
        \A i \in 1..Len(r.checksum.value) :
            Cardinality(CharsOf(r.checksum.value[i])) >= 11

\* The path of a URL: the part before its query string or fragment.
PathOf(url) ==
    LET marks == {i \in 1..Len(url) : url[i] \in {"?", "#"}}
    IN  IF marks = {} THEN url ELSE SubSeq(url, 1, Min(marks) - 1)

\* Whether the path of the URL ends in a dot and a listed extension.
HasListedExtension(url) ==
    \E x \in DANGEROUS_EXTENSIONS : endsWith(PathOf(url), <<".">> \o x)

\* C28: after the scan, an anchor's URL is among the collected URLs exactly
\* when the anchor has an href and the path of the URL ends in a listed
\* extension as a file extension (behind a dot, before any query string or
\* fragment).
C28_CollectedIffExtension ==
    scan.pc = "done" =>
        \A i \in DOMAIN page.anchors :
            (page.anchors[i].href \in Range(scan.urls))
                <=> (page.anchors[i].hasHref
                     /\ HasListedExtension(page.anchors[i].href))

Patterns == {REGEXP_CHECKSUM_VALUE, REGEXP_CHECKSUM_ALGO}

\* Whether the traversal reads the text of elem and the read raises an error.
ReadThrows(elem, root) ==
    /\ (Len(elem.children) = 0 \/ root)
    /\ elem.nodeName \notin NoTextNodeNames
    /\ elem.throws

\* C26: for either pattern, a child of the body whose text cannot be read
\* contributes the empty set; what the other children's subtrees yield and
\* the matches of the body's own text are all in the result of the scan;
\* and the scan ends with the result of the traversal.
C26_ScanSurvivesErrors ==
    /\ \A pattern \in Patterns :
          LET result == extractPattern(page.body, pattern, TRUE)
          IN  /\ \A k \in DOMAIN page.body.children :
                    LET child == page.body.children[k]
                    IN  /\ ReadThrows(child, FALSE) =>
                              extractPattern(child, pattern, FALSE) = <<>>
                        /\ Range(extractPattern(child, pattern, FALSE))
                               \subseteq Range(result)
              /\ Range(MapNormalize(ExecAll(pattern, page.body.innerText, 1)))
                     \subseteq Range(result)
    /\ scan.pc = "done" =>
          /\ scan.checksumAlgos =
                 extractPattern(page.body, REGEXP_CHECKSUM_ALGO, TRUE)
          /\ scan.checksumValues =
                 filterOf(variant,
                          extractPattern(page.body, REGEXP_CHECKSUM_VALUE, TRUE))

\* C26's case: the body has a child whose text cannot be read and another
\* child with a checksum, and the scan ended with that checksum found.
C26_Witness ==
    /\ scan.pc = "done"
    /\ Len(page.body.children) = 2
    /\ ReadThrows(page.body.children[1], FALSE)
    /\ ~ ReadThrows(page.body.children[2], FALSE)
    /\ extractPattern(page.body.children[2], REGEXP_CHECKSUM_VALUE, FALSE) # <<>>
    /\ scan.checksumValues # <<>>
    /\ scan.checksumAlgos # <<>>

\* The upper-case letters.
UpperCaseLetters ==
    {"A", "B", "C", "D", "E", "F", "G", "H", "I", "J", "K", "L", "M",
     "N", "O", "P", "Q", "R", "S", "T", "U", "V", "W", "X", "Y", "Z"}

\* C27: every string extractPattern returns, for the checksum-value pattern
\* and for the algorithm-name pattern, has no upper-case letter and no
\* hyphen.
C27_LowerCaseNoHyphen ==
    /\ \A pattern \in Patterns :
          LET result == extractPattern(page.body, pattern, TRUE)
          IN  \A k \in DOMAIN result :
                  /\ "-" \notin CharsOf(result[k])
                  /\ CharsOf(result[k]) \cap UpperCaseLetters = {}
    /\ \A k \in DOMAIN scan.checksumAlgos :
          /\ "-" \notin CharsOf(scan.checksumAlgos[k])
          /\ CharsOf(scan.checksumAlgos[k]) \cap UpperCaseLetters = {}

\* C27's case: the page spells an algorithm "SHA - 256" and a checksum in
\* upper case; the scan returned the name without its hyphen and both in
\* lower case.
C27_Witness ==
    /\ scan.pc = "done"
    /\ <<"s", "h", "a", " ", " ", "2", "5", "6">> \in Range(scan.checksumAlgos)
    /\ toLowerCase(SubSeq(TextUpper, 11, Len(TextUpper)))
           \in Range(extractPattern(page.body, REGEXP_CHECKSUM_VALUE, TRUE))

(***************************************************************************)
(* The hashing primitive (CryptoJS), which the repository only calls.      *)
(*                                                                         *)
(* A hasher is [algo, hash, data, nDataBytes]: a chaining value, the bytes *)
(* appended and not yet processed, and the number of bytes appended.       *)
(* update appends and processes the complete blocks; finalize pads,        *)
(* processes the rest and mixes the length in.  The compression function   *)
(* is a small stand-in (16-bit chaining value, blocks of 2 or 4 bytes);    *)
(* the block structure is the primitive's.                                 *)
(*                                                                         *)
(* A 32-bit word is kept as its two 16-bit halves [hi, lo]: the word       *)
(* hi * 2^16 + lo.                                                         *)
(***************************************************************************)

CHECKSUM_TYPE_MD5 == <<"m", "d", "5">>
CHECKSUM_TYPE_SHA1 == <<"s", "h", "a", "1">>
CHECKSUM_TYPE_SHA256 == <<"s", "h", "a", "2", "5", "6">>
CHECKSUM_TYPE_SHA384 == <<"s", "h", "a", "3", "8", "4">>
CHECKSUM_TYPE_SHA512 == <<"s", "h", "a", "5", "1", "2">>

SupportedAlgos ==
    {CHECKSUM_TYPE_MD5, CHECKSUM_TYPE_SHA1, CHECKSUM_TYPE_SHA256,
     CHECKSUM_TYPE_SHA384, CHECKSUM_TYPE_SHA512}

HashModulus == 65536

\* The block size in bytes (64 and 128 in the primitive, scaled by 32).
BlockBytes(algo) ==
    IF algo \in {CHECKSUM_TYPE_SHA384, CHECKSUM_TYPE_SHA512} THEN 4 ELSE 2

\* The initial chaining value.
InitialHash(algo) ==
    CASE algo = CHECKSUM_TYPE_MD5 -> 4660
      [] algo = CHECKSUM_TYPE_SHA1 -> 22136
      [] algo = CHECKSUM_TYPE_SHA256 -> 39612
      [] algo = CHECKSUM_TYPE_SHA384 -> 57072
      [] OTHER -> 9029

RECURSIVE BlockValue(_, _)
BlockValue(acc, block) ==
    IF block = <<>> THEN acc
    ELSE BlockValue((acc * 257 + Head(block) + 1) % HashModulus, Tail(block))

\* One block folded into the chaining value.
Compress(algo, hash, block) ==
    (hash * 33 + BlockValue(InitialHash(algo) % 251, block)) % HashModulus

\* The complete blocks of data folded into hash, in order.
RECURSIVE ProcessBlocks(_, _, _)
ProcessBlocks(algo, hash, data) ==
    IF Len(data) < BlockBytes(algo) THEN hash
    ELSE ProcessBlocks(algo,
                       Compress(algo, hash, SubSeq(data, 1, BlockBytes(algo))),
                       SubSeq(data, BlockBytes(algo) + 1, Len(data)))

\* The bytes of data after its last complete block.
Remainder(algo, data) ==
    SubSeq(data, Len(data) - (Len(data) % BlockBytes(algo)) + 1, Len(data))

\* The padding: a marker byte, then zeros up to a block boundary.
Padding(algo, n) ==
    <<128>> \o [i \in 1..((BlockBytes(algo) - ((n + 1) % BlockBytes(algo)))
                              % BlockBytes(algo)) |-> 0]

\* The hex digit of a value in 0..15.
HexChar(d) == HexDigits16[d + 1]

\* toString(CryptoJS.enc.Hex): lower-case hex digits, most significant first.
HexOf(hash) ==
    <<HexChar(hash \div 4096), HexChar((hash \div 256) % 16),
      HexChar((hash \div 16) % 16), HexChar(hash % 16)>>

\* CryptoJS.algo.X.create()
HasherCreate(algo) ==
    [algo |-> algo, hash |-> InitialHash(algo), data |-> <<>>, nDataBytes |-> 0]

\* The byte at position k (from 0) of a word array: big-endian in each word.
WordArrayByte(words, k) ==
    LET w == words[(k \div 4) + 1]
    IN  CASE k % 4 = 0 -> w.hi \div 256
          [] k % 4 = 1 -> w.hi % 256
          [] k % 4 = 2 -> w.lo \div 256
          [] OTHER -> w.lo % 256

\* The first sigBytes bytes of a word array.
WordArrayBytes(wordArray) ==
    [k \in 1..wordArray.sigBytes |-> WordArrayByte(wordArray.words, k - 1)]

\* hasher.update(wordArray): append the significant bytes, process the
\* complete blocks, keep the rest.  (data is bound as an element of a
\* singleton so that it is computed once.)
HasherUpdate(hasher, wordArray) ==
    CHOOSE result \in
        { [hasher EXCEPT
              !.hash = ProcessBlocks(hasher.algo, hasher.hash, data),
              !.data = Remainder(hasher.algo, data),
              !.nDataBytes = hasher.nDataBytes + wordArray.sigBytes]
          : data \in {hasher.data \o WordArrayBytes(wordArray)} } : TRUE

\* hasher.finalize(): the chaining value after padding, with the length.
HasherFinalize(hasher) ==
    LET padded == hasher.data \o Padding(hasher.algo, Len(hasher.data))
        last == ProcessBlocks(hasher.algo, hasher.hash, padded)
    IN  (last * 33 + hasher.nDataBytes) % HashModulus

\* The accumulator that finalize() leaves behind: the padding was appended
\* to its buffer and processed, so it no longer stands for the bytes fed.
HasherAfterFinalize(hasher) ==
    [hasher EXCEPT
        !.hash = ProcessBlocks(hasher.algo, hasher.hash,
                               hasher.data \o Padding(hasher.algo, Len(hasher.data))),
        !.data = <<>>]

\* hasher.clone(): a copy that shares nothing with the original.
HasherClone(hasher) == hasher

\* The digest of a whole message in one shot: the padded message cut into
\* blocks and folded from the initial value, without any buffering.
SingleShotDigest(algo, bytes) ==
    LET padded == bytes \o Padding(algo, Len(bytes))
    IN  HexOf((ProcessBlocks(algo, InitialHash(algo), padded) * 33 + Len(bytes))
              % HashModulus)

(***************************************************************************)
(* Streaming verifier: processChunk and computeHash                        *)
(***************************************************************************)

\* CHUNK_SIZE = 1024 * 1024 in the scripts, scaled to one 32-bit word.
CHUNK_SIZE == 4

\* uint8Array[k]: undefined past the end, which the shifts and ors read as 0.
ByteAt(bytes, k) == IF k < Len(bytes) THEN bytes[k + 1] ELSE 0

\* Math.ceil(arrayBuffer.byteLength / 4)
wordsCount(bytes) == (Len(bytes) + 3) \div 4

\* (b0 << 24) | (b1 << 16) | (b2 << 8) | b3: the operators work on signed
\* 32-bit integers, so a first byte of 128 or more gives a negative value.
shiftOr(b0, b1, b2, b3) ==
    (IF b0 >= 128 THEN b0 - 256 ELSE b0) * 16777216
        + b1 * 65536 + b2 * 256 + b3

\* A conversion that keeps the sign of the 32-bit value.
toUint32KeepsSign(x) == [hi |-> x \div 65536, lo |-> x % 65536]

\* x >>> 0: the value taken as an unsigned 32-bit integer, 0..2^32-1.  It is
\* held as its two 16-bit halves, word = hi * 65536 + lo.
toUint32(x) == [hi |-> (x \div 65536) % 65536, lo |-> x % 65536]

\* words[i] = ((b[4i] << 24) | (b[4i+1] << 16) | (b[4i+2] << 8) | b[4i+3]) >>> 0
chunkWords(bytes) ==
    [i \in 1..wordsCount(bytes) |->
        toUint32(shiftOr(ByteAt(bytes, 4 * (i - 1)),
                         ByteAt(bytes, 4 * (i - 1) + 1),
                         ByteAt(bytes, 4 * (i - 1) + 2),
                         ByteAt(bytes, 4 * (i - 1) + 3)))]

\* A significant length of whole words.
chunkSigBytesWholeWords(bytes) == 4 * wordsCount(bytes)

\* The significant length handed to WordArray.create: arrayBuffer.byteLength.
chunkSigBytes(bytes) == Len(bytes)

\* CryptoJS.lib.WordArray.create(words, arrayBuffer.byteLength)
chunkWordArray(bytes) ==
    [words |-> chunkWords(bytes), sigBytes |-> chunkSigBytes(bytes)]

\* file.slice(chunkStart, chunkEnd): the end is clamped to the file's size.
fileSlice(file, chunkStart, chunkEnd) ==
    SubSeq(file, chunkStart + 1,
           IF chunkEnd < Len(file) THEN chunkEnd ELSE Len(file))

\* A chunk end that is not limited by the file's size.
chunkEndOfWholeChunk(chunkStart, size) == chunkStart + CHUNK_SIZE

\* Math.min(chunkStart + CHUNK_SIZE, file.size)
chunkEndOf(chunkStart, size) ==
    IF chunkStart + CHUNK_SIZE < size THEN chunkStart + CHUNK_SIZE ELSE size

\* An offset that is left where it was.
nextChunkStartStalls(chunkStart) == chunkStart

\* chunkStart += CHUNK_SIZE
nextChunkStart(chunkStart) == chunkStart + CHUNK_SIZE

(***************************************************************************)
(* Streaming verifier: verifyFile                                          *)
(*                                                                         *)
(* A call of verifyFile is a record: its position pc, its arguments, its   *)
(* locals (valid is "undefined", "true" or "false"), the chunk reads it    *)
(* has requested of the FileReader and not yet got back (pending), and a   *)
(* log of what it did (created, reads, digests, chunks: the ranges the     *)
(* current call of computeHash has sliced so far, and writes: the status   *)
(* texts it has put into the popup).  It runs                              *)
(* without interruption from one suspension to the next; it is suspended   *)
(* while a chunk is being read ("reading"), while the result of            *)
(* computeHash is awaited ("awaitHash") and while its storage request is   *)
(* outstanding ("cleanupGet", "cleanupCb").                                *)
(***************************************************************************)

Undefined == "undefined"

\* checksum_type.toLowerCase().replace('-', '').replace(' ', '')
canonicalType(checksum_type) ==
    replaceFirst(replaceFirst(toLowerCase(checksum_type), "-"), " ")

\* A comparison that wants every computed digest among the page's values.
digestMatchesAll(computed, actual) ==
    /\ computed # <<>>
    /\ \A i \in 1..Len(computed) : computed[i] \in Range(actual)

\* new Set([...computed].filter(x => actual.has(x))).size > 0
digestMatches(computed, actual) ==
    \E i \in 1..Len(computed) : computed[i] \in Range(actual)

NewCall(file, checksum, downloadId) ==
    [pc |-> "call", file |-> file, checksum |-> checksum,
     downloadId |-> downloadId,
     checksum_types |-> <<>>, checksum_value_actual |-> <<>>,
     checksum_value_computed |-> <<>>, checksum_result |-> Undefined,
     valid |-> Undefined, typeIdx |-> 0, workingHash |-> Undefined,
     chunkStart |-> 0, chunkEnd |-> 0, incrementalHash |-> Undefined,
     outcome |-> "none", snap |-> Undefined,
     pending |-> <<>>, chunks |-> <<>>, writes |-> <<>>,
     created |-> <<>>, reads |-> 0, digests |-> <<>>, readFailed |-> FALSE]

\* A try block that does not test for CryptoJS.
verifyTryIgnoresMissing(v) ==
    [v EXCEPT !.pc = "for",
              !.checksum_types = v.checksum.type,
              !.checksum_value_actual = SetAddAll(<<>>, v.checksum.value),
              !.checksum_value_computed = <<>>]

\* try { if (typeof CryptoJS === 'undefined') throw ...; the locals }
verifyTry(v) ==
    IF ~ cryptoLoaded
    THEN [v EXCEPT !.pc = "catch"]
    ELSE [v EXCEPT !.pc = "for",
                   !.checksum_types = v.checksum.type,
                   !.checksum_value_actual = SetAddAll(<<>>, v.checksum.value),
                   !.checksum_value_computed = <<>>]

\* An unrecognized type that aborts the verification.
unknownTypeThrows(v) == [v EXCEPT !.pc = "catch"]

\* default: console.debug(...); continue
unknownType(v) == [v EXCEPT !.pc = "for"]

\* A loop that creates an accumulator for the first attempt only and keeps
\* feeding it in the later ones.
verifyForReusesHash(v) ==
    IF v.typeIdx >= Len(v.checksum_types)
    THEN [v EXCEPT !.pc = "after"]
    ELSE LET w == [v EXCEPT !.typeIdx = v.typeIdx + 1]
             algo == canonicalType(v.checksum_types[v.typeIdx + 1])
         IN  IF algo \in SupportedAlgos
             THEN [w EXCEPT !.workingHash = IF v.created = <<>>
                                            THEN HasherCreate(algo)
                                            ELSE [v.workingHash EXCEPT !.algo = algo],
                            !.created = Append(v.created, algo),
                            !.chunkStart = 0,
                            !.chunks = <<>>,
                            !.pc = "while"]
             ELSE unknownType(w)

\* for (let checksum_type of checksum_types) { switch (...) { case ...:
\*     workingHash = CryptoJS.algo.X.create(); ... computeHash(file, workingHash)
verifyFor(v) ==
    IF v.typeIdx >= Len(v.checksum_types)
    THEN [v EXCEPT !.pc = "after"]
    ELSE LET w == [v EXCEPT !.typeIdx = v.typeIdx + 1]
             algo == canonicalType(v.checksum_types[v.typeIdx + 1])
         IN  IF algo \in SupportedAlgos
             THEN [w EXCEPT !.workingHash = HasherCreate(algo),
                            !.created = Append(v.created, algo),
                            !.chunkStart = 0,
                            !.chunks = <<>>,
                            !.pc = "while"]
             ELSE unknownType(w)

\* A loop that requests the next chunk without awaiting the current one.
computeHashReadsAhead(v) ==
    IF v.chunkStart < Len(v.file)
    THEN LET chunkEnd == chunkEndOf(v.chunkStart, Len(v.file))
             ahead == IF chunkEnd < Len(v.file)
                      THEN <<[start |-> chunkEnd,
                              end |-> chunkEndOf(chunkEnd, Len(v.file))]>>
                      ELSE <<>>
         IN  [v EXCEPT !.chunkEnd = chunkEnd,
                       !.pending = v.pending
                                   \o <<[start |-> v.chunkStart, end |-> chunkEnd]>>
                                   \o ahead,
                       !.chunks = v.chunks
                                  \o <<[start |-> v.chunkStart, end |-> chunkEnd]>>
                                  \o ahead,
                       !.reads = v.reads + 1 + Len(ahead),
                       !.pc = "reading"]
    ELSE [v EXCEPT !.checksum_result = HexOf(HasherFinalize(v.workingHash)),
                   !.pc = "awaitHash"]

\* computeHash: while (chunkStart < file.size) { ... await processChunk }
\* return workingHash.finalize().toString(CryptoJS.enc.Hex)
\* processChunk hands the chunk to reader.readAsArrayBuffer.
computeHashWhile(v) ==
    IF v.chunkStart < Len(v.file)
    THEN LET chunkEnd == chunkEndOf(v.chunkStart, Len(v.file))
         IN  [v EXCEPT !.chunkEnd = chunkEnd,
                       !.pending = Append(v.pending,
                                          [start |-> v.chunkStart,
                                           end |-> chunkEnd]),
                       !.chunks = Append(v.chunks,
                                         [start |-> v.chunkStart,
                                          end |-> chunkEnd]),
                       !.reads = v.reads + 1,
                       !.pc = "reading"]
    ELSE [v EXCEPT !.checksum_result = HexOf(HasherFinalize(v.workingHash)),
                   !.pc = "awaitHash"]

\* An onload that takes the progress digest from the live accumulator.
processChunkOnloadPeeksLive(v) ==
    LET chunk == Head(v.pending)
        bytes == fileSlice(v.file, chunk.start, chunk.end)
        hasher == HasherUpdate(v.workingHash, chunkWordArray(bytes))
    IN  [v EXCEPT !.workingHash = HasherAfterFinalize(hasher),
                  !.pending = Tail(v.pending),
                  !.incrementalHash = HexOf(HasherFinalize(hasher)),
                  !.chunkStart = nextChunkStart(v.chunkStart),
                  !.pc = "while"]

\* reader.onload of processChunk, then computeHash's chunkStart += CHUNK_SIZE.
\* The clone is finalized; the live accumulator is only updated.
processChunkOnload(v) ==
    LET chunk == Head(v.pending)
        bytes == fileSlice(v.file, chunk.start, chunk.end)
        hasher == HasherUpdate(v.workingHash, chunkWordArray(bytes))
    IN  [v EXCEPT !.workingHash = hasher,
                  !.pending = Tail(v.pending),
                  !.incrementalHash = HexOf(HasherFinalize(HasherClone(hasher))),
                  !.chunkStart = nextChunkStart(v.chunkStart),
                  !.pc = "while"]

\* A failed read that is taken for a completed one.
processChunkOnerrorResolves(v) ==
    [processChunkOnload(v) EXCEPT !.readFailed = TRUE]

\* reader.onerror = reject: the rejection reaches verifyFile's catch
processChunkOnerror(v) ==
    [v EXCEPT !.readFailed = TRUE, !.pending = Tail(v.pending), !.pc = "catch"]

\* checksum_value_computed.add(checksum_result); in content.js then
\* valid = ...; if (valid) break;
verifyStore(v) ==
    LET computed == SetAdd(v.checksum_value_computed, v.checksum_result)
        w == [v EXCEPT !.checksum_value_computed = computed,
                       !.digests = Append(v.digests,
                                          [algo |-> v.workingHash.algo,
                                           digest |-> v.checksum_result])]
    IN  IF variant = "content"
        THEN LET valid == digestMatches(computed, v.checksum_value_actual)
             IN  [w EXCEPT !.valid = IF valid THEN "true" ELSE "false",
                           !.pc = IF valid THEN "after" ELSE "for"]
        ELSE [w EXCEPT !.pc = "for"]

\* Whether the popup's mismatch text (the localized message
\* popupStatusInvalid, which is not among the sources) holds the element
\* "delete" that the unsafe branch attaches its handler to.
DeleteLinkOffered == TRUE

\* An ending that takes a verdict that was never set for a match.
verifyAfterUnsetIsValid(v) ==
    LET valid == IF variant = "content"
                 THEN v.valid
                 ELSE IF digestMatches(v.checksum_value_computed,
                                       v.checksum_value_actual)
                      THEN "true" ELSE "false"
        passes == valid # "false"
    IN  [v EXCEPT !.valid = valid,
                  !.outcome = IF passes THEN "safe" ELSE "unsafe",
                  !.writes = Append(v.writes,
                                    IF passes
                                    THEN [status |-> "valid", onclick |-> {}]
                                    ELSE [status |-> "invalid",
                                          onclick |-> {v.downloadId}]),
                  !.pc = "finally"]

\* An ending that offers the delete link whatever the verdict.
verifyAfterAlwaysOffersDelete(v) ==
    LET valid == IF variant = "content"
                 THEN v.valid
                 ELSE IF digestMatches(v.checksum_value_computed,
                                       v.checksum_value_actual)
                      THEN "true" ELSE "false"
    IN  [v EXCEPT !.valid = valid,
                  !.outcome = IF valid = "true" THEN "safe" ELSE "unsafe",
                  !.writes = Append(v.writes,
                                    [status |-> IF valid = "true"
                                                THEN "valid" ELSE "invalid",
                                     onclick |-> {v.downloadId}]),
                  !.pc = "finally"]

\* After the loop: (part_000: const valid = ...;) if (valid) safe else unsafe.
\* The safe branch puts the valid text into the status; the unsafe branch
\* puts the invalid text there and ends with
\* shadow.getElementById("delete").onclick = ..., which throws when there
\* is no such element.
verifyAfter(v) ==
    LET valid == IF variant = "content"
                 THEN v.valid
                 ELSE IF digestMatches(v.checksum_value_computed,
                                       v.checksum_value_actual)
                      THEN "true" ELSE "false"
    IN  [v EXCEPT !.valid = valid,
                  !.outcome = IF valid = "true" THEN "safe" ELSE "unsafe",
                  !.writes = Append(v.writes,
                                    IF valid = "true"
                                    THEN [status |-> "valid", onclick |-> {}]
                                    ELSE [status |-> "invalid",
                                          onclick |-> IF DeleteLinkOffered
                                                      THEN {v.downloadId}
                                                      ELSE {}]),
                  !.pc = IF valid = "true" \/ DeleteLinkOffered
                         THEN "finally" ELSE "catch"]

\* A catch block that presents the error as a mismatch.
verifyCatchUnsafe(v) == [v EXCEPT !.outcome = "unsafe", !.pc = "finally"]

\* catch (error) { title.innerHTML = "Error"; status.innerHTML = ...; }
verifyCatch(v) ==
    [v EXCEPT !.outcome = "error",
              !.writes = Append(v.writes, [status |-> "error", onclick |-> {}]),
              !.pc = "finally"]

\* finally { chrome.storage.local.get(['downloads'], callback) }
verifyFinally(v) == [v EXCEPT !.pc = "cleanupGet"]

Suspended == {"call", "reading", "awaitHash", "cleanupGet", "cleanupCb", "done"}

\* The call run up to its next suspension.  (The call is bound as an element
\* of a singleton so that each step is computed once.)
RECURSIVE RunToSuspension(_)
RunToSuspension(call) ==
    CHOOSE result \in
        { IF v.pc \in Suspended THEN v
          ELSE RunToSuspension(
                   CASE v.pc = "try" -> verifyTry(v)
                     [] v.pc = "for" -> verifyFor(v)
                     [] v.pc = "while" -> computeHashWhile(v)
                     [] v.pc = "store" -> verifyStore(v)
                     [] v.pc = "after" -> verifyAfter(v)
                     [] v.pc = "catch" -> verifyCatch(v)
                     [] OTHER -> verifyFinally(v))
          : v \in {call} } : TRUE

\* Deleting a key of a map.
MapDelete(map, key) == [k \in DOMAIN map \ {key} |-> map[k]]

\* The head of verifyFile, before its try: the "computing" style, which
\* replaces the status text.
verifyEnter(v) ==
    [v EXCEPT !.writes = Append(v.writes,
                                [status |-> "computing", onclick |-> {}]),
              !.pc = "try"]

\* The popup after a call went from `before` to `after`: what the call wrote
\* last, if it wrote.
PopupAfter(shown, before, after) ==
    IF Len(after.writes) > Len(before.writes)
    THEN after.writes[Len(after.writes)]
    ELSE shown

\* verifyFile is entered: it runs to its first suspension.
verifyFile(a) ==
    /\ ver[a].pc = "call"
    /\ LET after == RunToSuspension(verifyEnter(ver[a]))
       IN  /\ ver' = [ver EXCEPT ![a] = after]
           /\ popup' = PopupAfter(popup, ver[a], after)
    /\ UNCHANGED <<variant, cryptoLoaded, storage, fvars, svars, qvars,
                   console, alarms>>

\* A completed read that feeds one accumulator shared by all the calls
\* that wait for a chunk.
ChunkLoadedIntoSharedHash(a) ==
    /\ ver[a].pc = "reading"
    /\ LET after == RunToSuspension(processChunkOnload(ver[a]))
           shared == processChunkOnload(ver[a]).workingHash
       IN  /\ ver' = [b \in DOMAIN ver |->
                         IF b = a THEN after
                         ELSE IF ver[b].pc = "reading"
                         THEN [ver[b] EXCEPT !.workingHash = shared]
                         ELSE ver[b]]
           /\ popup' = PopupAfter(popup, ver[a], after)
    /\ UNCHANGED <<variant, cryptoLoaded, storage, fvars, svars, qvars,
                   console, alarms>>

\* The chunk read completes.
ChunkLoaded(a) ==
    /\ ver[a].pc = "reading"
    /\ LET after == RunToSuspension(processChunkOnload(ver[a]))
       IN  /\ ver' = [ver EXCEPT ![a] = after]
           /\ popup' = PopupAfter(popup, ver[a], after)
    /\ UNCHANGED <<variant, cryptoLoaded, storage, fvars, svars, qvars,
                   console, alarms>>

\* The chunk read fails.
ChunkFailed(a) ==
    /\ ver[a].pc = "reading"
    /\ LET after == RunToSuspension(processChunkOnerror(ver[a]))
       IN  /\ ver' = [ver EXCEPT ![a] = after]
           /\ popup' = PopupAfter(popup, ver[a], after)
    /\ UNCHANGED <<variant, cryptoLoaded, storage, fvars, svars, qvars,
                   console, alarms>>

\* checksum_result = await computeHash(...): verifyFile resumes.
HashAwaited(a) ==
    /\ ver[a].pc = "awaitHash"
    /\ LET after == RunToSuspension([ver[a] EXCEPT !.pc = "store"])
       IN  /\ ver' = [ver EXCEPT ![a] = after]
           /\ popup' = PopupAfter(popup, ver[a], after)
    /\ UNCHANGED <<variant, cryptoLoaded, storage, fvars, svars, qvars,
                   console, alarms>>

\* The storage serves the get of verifyFile's finally.
CleanupRead(a) ==
    /\ ver[a].pc = "cleanupGet"
    /\ ver' = [ver EXCEPT ![a] = [ver[a] EXCEPT !.snap = storage.downloads,
                                                !.pc = "cleanupCb"]]
    /\ UNCHANGED <<variant, cryptoLoaded, storage, fvars, svars, bvars>>

\* The callback of that get: if (downloadId in downloads) { delete; set }
CleanupCallback(a) ==
    /\ ver[a].pc = "cleanupCb"
    /\ storage' = IF ver[a].downloadId \in DOMAIN ver[a].snap
                  THEN [storage EXCEPT
                           !.downloads = MapDelete(ver[a].snap, ver[a].downloadId)]
                  ELSE storage
    /\ ver' = [ver EXCEPT ![a] = [ver[a] EXCEPT !.pc = "done"]]
    /\ UNCHANGED <<variant, cryptoLoaded, fvars, svars, bvars>>

NextVerify ==
    \/ \E a \in DOMAIN ver : verifyFile(a)
    \/ \E a \in DOMAIN ver : ChunkLoaded(a)
    \/ \E a \in DOMAIN ver : ChunkFailed(a)
    \/ \E a \in DOMAIN ver : HashAwaited(a)
    \/ \E a \in DOMAIN ver : CleanupRead(a)
    \/ \E a \in DOMAIN ver : CleanupCallback(a)

(***************************************************************************)
(* Specification SpecHash: one supported algorithm over every file of up   *)
(* to MaxFileSize bytes.                                                   *)
(***************************************************************************)

ByteValues == {0, 200}

MaxFileSize == 9

Files == UNION {[1..n -> ByteValues] : n \in 0..MaxFileSize}

TrackedEntry(url, checksum, tab) ==
    [download |-> url, checksum |-> checksum, tab |-> tab, completed |-> FALSE]

InitHash ==
    /\ variant \in Variants
    /\ cryptoLoaded = TRUE
    /\ \E file \in Files, algo \in SupportedAlgos :
          LET checksum == [type |-> <<algo>>, value |-> <<>>]
          IN  /\ ver = <<NewCall(file, checksum, 1)>>
              /\ storage = [linkToMonitor |-> <<>>,
                            downloads |-> [d \in {1} |->
                                              TrackedEntry(UrlZip, checksum, 1)]]
    /\ FilterIdle
    /\ ScanIdle
    /\ BackgroundIdle

SpecHash == InitHash /\ [][NextVerify]_vars

\* C1: for every supported algorithm and every file, the digest computeHash
\* returns after feeding the file chunk by chunk equals the digest of the
\* same algorithm computed in one shot over the whole byte sequence.
C1_ChunkedEqualsSingleShot ==
    \A a \in DOMAIN ver :
        /\ ver[a].pc = "awaitHash" =>
              ver[a].checksum_result =
                  SingleShotDigest(ver[a].workingHash.algo, ver[a].file)
        /\ \A k \in 1..Len(ver[a].digests) :
              ver[a].digests[k].digest =
                  SingleShotDigest(ver[a].digests[k].algo, ver[a].file)

\* C1's case: a file of one chunk plus one byte has been read in two chunks
\* and its digest returned.
C1_Witness ==
    \E a \in DOMAIN ver :
        /\ Len(ver[a].file) = CHUNK_SIZE + 1
        /\ ver[a].reads = 2
        /\ ver[a].pc = "awaitHash"

\* C16: a call has at most one chunk read outstanding, and has one exactly
\* while it waits for a chunk; the chunk requested is at most CHUNK_SIZE
\* bytes and starts where the bytes already folded into the accumulator
\* end, so chunk i+1 is requested only after chunk i was folded.
C16_NoReadAhead ==
    \A a \in DOMAIN ver :
        LET v == ver[a]
        IN  /\ Len(v.pending) <= 1
            /\ (v.pc = "reading") <=> (Len(v.pending) = 1)
            /\ \A k \in DOMAIN v.pending :
                  /\ v.pending[k].start = v.workingHash.nDataBytes
                  /\ v.pending[k].end - v.pending[k].start <= CHUNK_SIZE
                  /\ v.pending[k].end - v.pending[k].start >= 1

\* C16's case: the third chunk of a file of more than two chunks has been
\* requested, the first two being folded.
C16_Witness ==
    \E a \in DOMAIN ver :
        /\ ver[a].pc = "reading"
        /\ ver[a].reads = 3
        /\ ver[a].workingHash.nDataBytes = 2 * CHUNK_SIZE
        /\ Len(ver[a].file) > 2 * CHUNK_SIZE

\* Math.ceil(size / CHUNK_SIZE)
ChunkCount(size) == (size + CHUNK_SIZE - 1) \div CHUNK_SIZE

\* C22: the k-th chunk computeHash slices (k from 0) is
\* [k * CHUNK_SIZE, min((k + 1) * CHUNK_SIZE, size)); when computeHash
\* returns it has sliced ceil(size / CHUNK_SIZE) chunks, every byte of the
\* file lies in exactly one of them, all of them were read, and for an
\* empty file none was read.
C22_ChunksPartitionFile ==
    \A a \in DOMAIN ver :
        LET v == ver[a]
            size == Len(v.file)
        IN  /\ \A k \in DOMAIN v.chunks :
                  /\ v.chunks[k].start = (k - 1) * CHUNK_SIZE
                  /\ v.chunks[k].end = Min({k * CHUNK_SIZE, size})
                  /\ v.chunks[k].start < v.chunks[k].end
                  /\ k > 1 => v.chunks[k].start = v.chunks[k - 1].end
            /\ v.pc = "awaitHash" =>
                  /\ Len(v.chunks) = ChunkCount(size)
                  /\ v.reads = ChunkCount(size)
                  /\ v.pending = <<>>
                  /\ \A b \in 0..(size - 1) :
                        Cardinality({k \in DOMAIN v.chunks :
                                        /\ v.chunks[k].start <= b
                                        /\ b < v.chunks[k].end}) = 1
            /\ size = 0 => v.reads = 0 /\ v.chunks = <<>>

\* C22's case: a file of two chunks and a byte was read in three chunks, the
\* last one of a single byte, and computeHash returned.
C22_Witness ==
    \E a \in DOMAIN ver :
        /\ Len(ver[a].file) = 2 * CHUNK_SIZE + 1
        /\ ver[a].pc = "awaitHash"
        /\ Len(ver[a].chunks) = 3
        /\ ver[a].chunks[3] = [start |-> 2 * CHUNK_SIZE, end |-> 2 * CHUNK_SIZE + 1]

\* The accumulator after the chunks of file from chunkStart on were fed to
\* it, with no progress digest taken.
RECURSIVE FeedChunks(_, _, _)
FeedChunks(hasher, file, chunkStart) ==
    IF chunkStart < Len(file)
    THEN FeedChunks(
             HasherUpdate(hasher,
                          chunkWordArray(
                              fileSlice(file, chunkStart,
                                        chunkEndOf(chunkStart, Len(file))))),
             file, nextChunkStart(chunkStart))
    ELSE hasher

\* The buffers of a call: the chunks computeHash has cut so far and, for the
\* lengths of more than one word, the file as a single buffer.
Buffers(v) ==
    {v.file} \cup {SubSeq(v.file, v.chunks[k].start + 1, v.chunks[k].end) :
                      k \in DOMAIN v.chunks}

\* C37: for every buffer, processChunk makes ceil(length / 4) words;
\* word i holds byte 4i in its most significant byte, then bytes 4i+1, 4i+2
\* and 4i+3, with zero for a byte past the end; each word is in 0..2^32-1
\* (both halves in 0..65535); the significant length is the number of
\* bytes; and the first sigBytes bytes of the word array are the bytes.
C37_BigEndianPacking ==
    \A a \in DOMAIN ver :
        \A bytes \in Buffers(ver[a]) :
            LET wordArray == chunkWordArray(bytes)
                words == wordArray.words
                n == Len(bytes)
                byte(k) == IF k < n THEN bytes[k + 1] ELSE 0
            IN  /\ Len(words) * 4 >= n
                /\ Len(words) * 4 < n + 4
                /\ wordArray.sigBytes = n
                /\ \A i \in 0..(Len(words) - 1) :
                      /\ words[i + 1].hi \in 0..65535
                      /\ words[i + 1].lo \in 0..65535
                      /\ words[i + 1].hi \div 256 = byte(4 * i)
                      /\ words[i + 1].hi % 256 = byte(4 * i + 1)
                      /\ words[i + 1].lo \div 256 = byte(4 * i + 2)
                      /\ words[i + 1].lo % 256 = byte(4 * i + 3)
                /\ WordArrayBytes(wordArray) = bytes

\* C37's case: a file of nine bytes, the first of them 128 or more, whose
\* last chunk of one byte has been packed and fed to the accumulator.
C37_Witness ==
    \E a \in DOMAIN ver :
        /\ Len(ver[a].file) = 2 * CHUNK_SIZE + 1
        /\ ver[a].file[1] >= 128
        /\ ver[a].file[2 * CHUNK_SIZE + 1] >= 128
        /\ ver[a].reads = 3
        /\ ver[a].pc = "awaitHash"

\* C24: the onload of a chunk leaves in the live accumulator exactly the
\* update by that chunk; the digest computeHash returns is the one obtained
\* by feeding the chunks and finalizing without any progress digest; and the
\* progress digest taken after the last chunk is that final digest.
C24_PeekLeavesAccumulator ==
    /\ [](\A a \in DOMAIN ver :
             LET v == ver[a]
             IN  v.pc = "awaitHash" =>
                     /\ v.workingHash =
                            FeedChunks(HasherCreate(v.workingHash.algo), v.file, 0)
                     /\ v.checksum_result =
                            HexOf(HasherFinalize(
                                FeedChunks(HasherCreate(v.workingHash.algo),
                                           v.file, 0)))
                     /\ v.reads > 0 => v.incrementalHash = v.checksum_result)
    /\ [][\A a \in DOMAIN ver :
             (ver[a].pc = "reading" /\ ver'[a].pc \in {"reading", "awaitHash"}) =>
                 LET chunk == Head(ver[a].pending)
                     bytes == fileSlice(ver[a].file, chunk.start, chunk.end)
                 IN  ver'[a].workingHash =
                         HasherUpdate(ver[a].workingHash, chunkWordArray(bytes))]_vars

\* C24's case: three chunks were read, a progress digest was taken after
\* each, and computeHash returned its digest.
C24_Witness ==
    \E a \in DOMAIN ver :
        /\ ver[a].pc = "awaitHash"
        /\ ver[a].reads = 3
        /\ ver[a].incrementalHash = ver[a].checksum_result

(***************************************************************************)
(* Specification SpecVerify: one call of verifyFile on a small file, for   *)
(* every list of up to MaxTypes declared types and a few value sets.       *)
(***************************************************************************)

TypeMd5 == <<"m", "d", "5">>
TypeSha256 == <<"S", "H", "A", "-", "2", "5", "6">>
TypeSha1 == <<"s", "h", "a", "1">>
TypeCrc32 == <<"c", "r", "c", "3", "2">>

TypePool == {TypeMd5, TypeSha256, TypeSha1, TypeCrc32}

MaxTypes == 3

TypeLists == SeqsUpTo(TypePool, MaxTypes)

VerifyFiles == { <<>>, <<200, 0, 1, 2, 3>> }

\* A value that is the digest of no file of the model.
JunkValue == <<"z", "z", "z", "z">>

\* A hex string with its letters in upper case.
UpperHex(s) ==
    [i \in 1..Len(s) |->
        CASE s[i] = "a" -> "A" [] s[i] = "b" -> "B" [] s[i] = "c" -> "C"
          [] s[i] = "d" -> "D" [] s[i] = "e" -> "E" [] s[i] = "f" -> "F"
          [] OTHER -> s[i]]

\* Value sets of a descriptor: none, a wrong one, the file's digest under
\* one algorithm (in lower case, in upper case), a wrong one with the file's
\* digest under another.
ValueLists(file) ==
    { <<>>,
      <<JunkValue>>,
      <<SingleShotDigest(CHECKSUM_TYPE_MD5, file)>>,
      <<UpperHex(SingleShotDigest(CHECKSUM_TYPE_MD5, file))>>,
      <<SingleShotDigest(CHECKSUM_TYPE_SHA256, file)>>,
      <<JunkValue, SingleShotDigest(CHECKSUM_TYPE_SHA1, file)>> }

InitVerify ==
    /\ variant \in Variants
    /\ cryptoLoaded \in BOOLEAN
    /\ \E file \in VerifyFiles, types \in TypeLists :
          \E values \in ValueLists(file) :
              LET checksum == [type |-> types, value |-> values]
              IN  /\ ver = <<NewCall(file, checksum, 1)>>
                  /\ storage = [linkToMonitor |-> <<>>,
                                downloads |-> [d \in {1} |->
                                                  TrackedEntry(UrlZip, checksum, 1)]]
    /\ FilterIdle
    /\ ScanIdle
    /\ BackgroundIdle

SpecVerify == InitVerify /\ [][NextVerify]_vars

\* A call that has reached its verdict (or its error).
Ended(v) == v.pc \in {"cleanupGet", "cleanupCb", "done"}

\* Whether a declared type selects one of the five algorithms.
IsSupportedType(t) == canonicalType(t) \in SupportedAlgos

\* Whether the file's digest under declared type t is one of the values.
TypeMatches(t, file, values) ==
    /\ IsSupportedType(t)
    /\ SingleShotDigest(canonicalType(t), file) \in Range(values)

\* C2: absent errors, verifyFile's verdict is valid = true exactly when some
\* declared type that canonicalizes to a supported algorithm yields a digest
\* of the file that is one of the page's values; otherwise the unsafe path
\* is taken.
C2_VerdictIffSomeDigestMatches ==
    \A a \in DOMAIN ver :
        (Ended(ver[a]) /\ ver[a].outcome # "error") =>
            LET v == ver[a]
                some == \E i \in 1..Len(v.checksum.type) :
                            TypeMatches(v.checksum.type[i], v.file, v.checksum.value)
            IN  /\ v.outcome = (IF some THEN "safe" ELSE "unsafe")
                /\ (v.valid = "true") <=> some

\* C2's case: declared types ["SHA-256"], the values hold the file's
\* SHA-256 digest, and the call ended with the safe verdict.
C2_Witness ==
    \E a \in DOMAIN ver :
        /\ Ended(ver[a])
        /\ ver[a].checksum.type = <<TypeSha256>>
        /\ ver[a].outcome = "safe"
        /\ ver[a].reads = 2

\* C3: algorithms are attempted in declaration order and, once an attempt's
\* digest is one of the page's values, no later declared algorithm is
\* attempted: no accumulator is created after a matching digest.
C3_MatchAndStop ==
    \A a \in DOMAIN ver :
        LET v == ver[a]
        IN  \A k \in 1..Len(v.digests) :
                v.digests[k].digest \in Range(v.checksum.value)
                    => Len(v.created) = k

\* C4: a declared type that does not canonicalize to a supported algorithm
\* is skipped without an error: the supported types are still attempted in
\* their order, and the verdict is that of the list without it.
C4_UnknownTypeSkipped ==
    \A a \in DOMAIN ver :
        Ended(ver[a]) =>
            LET v == ver[a]
                clean == SelectSeq(v.checksum.type, IsSupportedType)
                matchAt(k) == TypeMatches(clean[k], v.file, v.checksum.value)
            IN  /\ v.outcome = "error" => (~ cryptoLoaded \/ v.readFailed)
                /\ Len(v.created) <= Len(clean)
                /\ \A k \in 1..Len(v.created) :
                      v.created[k] = canonicalType(clean[k])
                /\ v.outcome # "error" =>
                      /\ \A k \in 1..Len(clean) :
                            (\A j \in 1..(k - 1) : ~ matchAt(j))
                                => k <= Len(v.created)
                      /\ v.outcome = (IF \E k \in 1..Len(clean) : matchAt(k)
                                      THEN "safe" ELSE "unsafe")

\* C4's case: "crc32" was declared before a supported type, that type was
\* attempted and matched, and the call ended safe.
C4_Witness ==
    \E a \in DOMAIN ver :
        /\ Ended(ver[a])
        /\ Len(ver[a].checksum.type) >= 2
        /\ ver[a].checksum.type[1] = TypeCrc32
        /\ ver[a].created # <<>>
        /\ ver[a].outcome = "safe"

\* C11: when CryptoJS is missing, verifyFile reads no chunk, creates no
\* accumulator and computes no digest; the call ends with the error outcome,
\* neither safe nor unsafe, and no second call is made.
C11_MissingPrimitiveIsFatal ==
    ~ cryptoLoaded =>
        /\ Len(ver) = 1
        /\ \A a \in DOMAIN ver :
              /\ ver[a].reads = 0
              /\ ver[a].created = <<>>
              /\ ver[a].digests = <<>>
              /\ ver[a].pc \in {"call", "cleanupGet", "cleanupCb", "done"}
              /\ Ended(ver[a]) => ver[a].outcome = "error"

\* C11's case: CryptoJS is missing, a supported type was declared for a
\* file with bytes, and the call has ended.
C11_Witness ==
    /\ ~ cryptoLoaded
    /\ \E a \in DOMAIN ver :
          /\ ver[a].pc = "done"
          /\ ver[a].outcome = "error"
          /\ ver[a].file # <<>>
          /\ \E i \in DOMAIN ver[a].checksum.type :
                IsSupportedType(ver[a].checksum.type[i])

\* C12: once a chunk read has failed the call is at its end with the error
\* outcome, the accumulator being fed has given no digest, and from then on
\* no chunk is read, no accumulator is created and no digest is added.
C12_ReadFailureIsFatal ==
    /\ [](\A a \in DOMAIN ver :
             ver[a].readFailed =>
                 /\ Ended(ver[a])
                 /\ ver[a].outcome = "error"
                 /\ Len(ver[a].digests) = Len(ver[a].created) - 1)
    /\ [][\A a \in DOMAIN ver :
             ver[a].readFailed =>
                 /\ ver'[a].reads = ver[a].reads
                 /\ ver'[a].created = ver[a].created
                 /\ ver'[a].digests = ver[a].digests
                 /\ ver'[a].outcome = ver[a].outcome]_vars

\* C12's case: the second declared algorithm's second chunk failed to load
\* after the first algorithm was computed without a match.
C12_Witness ==
    \E a \in DOMAIN ver :
        /\ ver[a].readFailed
        /\ ver[a].pc = "done"
        /\ ver[a].reads = 4
        /\ Len(ver[a].created) = 2
        /\ Len(ver[a].digests) = 1

SupportedTypes(types) == SelectSeq(types, IsSupportedType)

\* C13: a call that has ended has exactly one of the outcomes safe, unsafe
\* and error, which does not change afterwards; a call that has not ended
\* has none; unsafe is reached only with CryptoJS present, no failed read,
\* every declared type processed and no computed digest among the values.
C13_ThreeOutcomes ==
    /\ [](\A a \in DOMAIN ver :
             LET v == ver[a]
             IN  /\ Ended(v) <=> v.outcome \in {"safe", "unsafe", "error"}
                 /\ ~ Ended(v) => v.outcome = "none"
                 /\ v.outcome = "unsafe" =>
                       /\ cryptoLoaded
                       /\ ~ v.readFailed
                       /\ v.typeIdx = Len(v.checksum.type)
                       /\ Len(v.digests) = Len(SupportedTypes(v.checksum.type))
                       /\ \A k \in DOMAIN v.digests :
                             v.digests[k].digest \notin Range(v.checksum.value))
    /\ [][\A a \in DOMAIN ver :
             Ended(ver[a]) => ver'[a].outcome = ver[a].outcome]_vars

\* C13's case: two supported types were declared, both were computed over
\* the whole file, neither digest is among the values, and the call ended
\* unsafe.
C13_Witness ==
    \E a \in DOMAIN ver :
        /\ ver[a].pc = "done"
        /\ ver[a].outcome = "unsafe"
        /\ Len(ver[a].digests) = 2
        /\ ver[a].reads = 4
        /\ ver[a].checksum.value # <<>>

\* C31: with CryptoJS present, a call whose declared type list is empty or
\* holds no type that canonicalizes to a supported algorithm never requests
\* a chunk, creates no accumulator and computes no digest, and it ends with
\* the outcome unsafe, whatever the page's values.
C31_NoSupportedTypeIsMismatch ==
    \A a \in DOMAIN ver :
        LET v == ver[a]
        IN  (cryptoLoaded /\ SupportedTypes(v.checksum.type) = <<>>) =>
                /\ v.reads = 0
                /\ v.pending = <<>>
                /\ v.created = <<>>
                /\ v.digests = <<>>
                /\ v.pc \notin {"reading", "awaitHash"}
                /\ v.outcome \in {"none", "unsafe"}
                /\ Ended(v) => v.outcome = "unsafe"

\* C31's case: a call with two unsupported types and no other, for a file
\* with bytes and a page with values, has run to its end.
C31_Witness ==
    \E a \in DOMAIN ver :
        /\ cryptoLoaded
        /\ ver[a].pc = "done"
        /\ ver[a].checksum.type = <<TypeCrc32, TypeCrc32>>
        /\ ver[a].file # <<>>
        /\ ver[a].checksum.value # <<>>
        /\ ver[a].outcome = "unsafe"

\* C23: every attempt starts from the accumulator that create() returns for
\* its algorithm, with no byte fed; while an attempt runs its accumulator
\* holds the bytes of the chunks of this attempt alone; and every digest
\* computed is the digest of the file's bytes under the attempt's algorithm,
\* whatever was fed in the attempts before it.
C23_FreshAccumulatorPerAttempt ==
    \A a \in DOMAIN ver :
        LET v == ver[a]
        IN  /\ (v.pc = "reading" /\ Len(v.chunks) = 1) =>
                  v.workingHash = HasherCreate(v.created[Len(v.created)])
            /\ v.pc = "reading" =>
                  /\ v.workingHash.algo = v.created[Len(v.created)]
                  /\ v.workingHash.nDataBytes = v.chunks[Len(v.chunks)].start
            /\ v.pc = "awaitHash" =>
                  /\ v.workingHash.nDataBytes = Len(v.file)
                  /\ v.checksum_result =
                         SingleShotDigest(v.created[Len(v.created)], v.file)
            /\ \A k \in DOMAIN v.digests :
                  /\ v.digests[k].algo = v.created[k]
                  /\ v.digests[k].digest =
                         SingleShotDigest(v.created[k], v.file)

\* C23's case: a file of two chunks was hashed under one algorithm and the
\* second attempt, under another, has its last chunk requested.
C23_Witness ==
    \E a \in DOMAIN ver :
        /\ ver[a].pc = "reading"
        /\ Len(ver[a].digests) = 1
        /\ Len(ver[a].created) = 2
        /\ ver[a].created[1] # ver[a].created[2]
        /\ ver[a].reads = 4
        /\ Len(ver[a].chunks) = 2

\* The scheduling of a call of verifyFile: the call is entered, every chunk
\* read that was requested completes or fails, the continuation of an await
\* runs, and the storage serves the request of the finally block.
VerifyFairness ==
    /\ WF_vars(\E a \in DOMAIN ver : verifyFile(a))
    /\ WF_vars(\E a \in DOMAIN ver : ChunkFailed(a) \/ ChunkLoaded(a))
    /\ WF_vars(\E a \in DOMAIN ver : HashAwaited(a))
    /\ WF_vars(\E a \in DOMAIN ver : CleanupRead(a))
    /\ WF_vars(\E a \in DOMAIN ver : CleanupCallback(a))

\* The declared types of the termination runs: a supported and an
\* unsupported one.
TerminationTypes == {TypeMd5, TypeCrc32}

\* One call of verifyFile for a file of every size up to MaxFileSize and
\* every list of up to MaxTypes declared types, with no value or with the
\* file's MD5 digest as the page's value.
InitTermination ==
    /\ variant \in Variants
    /\ cryptoLoaded \in BOOLEAN
    /\ \E size \in 0..MaxFileSize, types \in SeqsUpTo(TerminationTypes, MaxTypes) :
          LET file == [i \in 1..size |-> 0]
          IN  \E values \in {<<>>, <<SingleShotDigest(CHECKSUM_TYPE_MD5, file)>>} :
                  LET checksum == [type |-> types, value |-> values]
                  IN  /\ ver = <<NewCall(file, checksum, 1)>>
                      /\ storage = [linkToMonitor |-> <<>>,
                                    downloads |-> [d \in {1} |->
                                                      TrackedEntry(UrlZip, checksum, 1)]]
    /\ FilterIdle
    /\ ScanIdle
    /\ BackgroundIdle

SpecTermination == InitTermination /\ [][NextVerify]_vars /\ VerifyFairness

\* C21: when every requested chunk read completes or fails, every call of
\* verifyFile ends with one of the outcomes safe, unsafe and error, for every
\* file and every list of declared types; while a chunk is read, the offset
\* computeHash continues with after the chunk is strictly greater than the
\* offset of the chunk, and the bytes left to read are fewer.
C21_VerifyFileTerminates ==
    /\ <>(\A a \in DOMAIN ver :
             /\ Ended(ver[a])
             /\ ver[a].outcome \in {"safe", "unsafe", "error"})
    /\ [](\A a \in DOMAIN ver :
             ver[a].pc = "reading" =>
                 LET w == processChunkOnload(ver[a])
                 IN  /\ w.chunkStart > ver[a].chunkStart
                     /\ ver[a].chunkStart < Len(ver[a].file)
                     /\ Len(ver[a].file) - w.chunkStart
                            < Len(ver[a].file) - ver[a].chunkStart)

\* C21's case: three types were declared for a file of two chunks, two of
\* them were hashed chunk by chunk, and the call ended.
C21_Witness ==
    \E a \in DOMAIN ver :
        /\ Ended(ver[a])
        /\ Len(ver[a].checksum.type) = 3
        /\ Len(ver[a].file) > CHUNK_SIZE
        /\ ver[a].reads = 4
        /\ ver[a].outcome \in {"safe", "unsafe", "error"}

(***************************************************************************)
(* The background context and the browser                                  *)
(*                                                                         *)
(* background.js registers each of its listeners twice (runtime.onMessage  *)
(* at lines 23 and 154, downloads.onCreated at 67 and 198,                 *)
(* downloads.onChanged at 97 and 228), so every event runs two handlers.   *)
(* A handler asks the storage for data and continues in a callback; the    *)
(* request is a task [handler, phase, snap, arg] with phase "get" until    *)
(* the storage has read the data (snap) and "cb" until the callback ran.   *)
(* The storage serves the requests of one context in the order they were   *)
(* made; requests of the two contexts are not ordered with one another.    *)
(***************************************************************************)

ListenerRegistrations == 2

EmptyStorage == [linkToMonitor |-> <<>>, downloads |-> <<>>]

Task(handler, arg) ==
    [handler |-> handler, phase |-> "get", snap |-> EmptyStorage, arg |-> arg]

\* What each of n listeners sent, one listener after the other.
Times(s, n) == [i \in 1..(n * Len(s)) |-> s[((i - 1) % Len(s)) + 1]]

\* One task per registered listener.
Dispatch(task) == [i \in 1..ListenerRegistrations |-> task]

\* Setting a key of a map.
MapPut(map, key, value) ==
    [k \in DOMAIN map \cup {key} |-> IF k = key THEN value ELSE map[k]]

\* let pageData = {request, urls: request.urls, checksum: request.checksum,
\* tab}; the copy of the request it also holds is left out.
pageDataOf(request, tab) ==
    [urls |-> request.urls, checksum |-> request.checksum, tab |-> tab]

SenderTab == 1

\* A listener that answers every request as it answers "remove".
onMessageRepliesAlways(request) == <<[type |-> "deleted"]>>

\* The request types runtime.onMessage has a case for.
KnownRequestTypes == {"download", "remove", "keepAlive"}

\* default: console.debug("Unknown request type: " + request.type)
onMessageLogs(request) ==
    IF request.type \in KnownRequestTypes
    THEN <<>>
    ELSE <<[context |-> "background", type |-> request.type]>>

\* What one runtime.onMessage listener sends to the sender's tab: "deleted"
\* in the case "remove", nothing in the cases "download" and "keepAlive"
\* and in the default case, which only log.
onMessageReplies(request) ==
    IF request.type = "remove"
    THEN <<[type |-> "deleted"]>>
    ELSE <<>>

\* The storage requests one runtime.onMessage listener makes: in the case
\* "download", storage.get('linkToMonitor', ...); none in the other cases.
onMessageRequests(request) ==
    IF request.type = "download"
    THEN <<Task("onMessage", pageDataOf(request, SenderTab))>>
    ELSE <<>>

\* chrome.downloads.removeFile(id): the file of a complete download is
\* removed; for any other download the call fails and changes nothing.
removeFile(downloadItems, id) ==
    IF id \in DOMAIN downloadItems /\ downloadItems[id] = "complete"
    THEN [downloadItems EXCEPT ![id] = "removed"]
    ELSE downloadItems

\* The background context receives the oldest message the content context
\* sent: each registered runtime.onMessage listener handles it.
RuntimeMessage ==
    /\ delivered < Len(outbox)
    /\ LET request == outbox[delivered + 1]
       IN  /\ tasks' = tasks \o Times(onMessageRequests(request),
                                       ListenerRegistrations)
           /\ tabMsgs' = tabMsgs \o Times(onMessageReplies(request),
                                           ListenerRegistrations)
           /\ items' = IF request.type = "remove"
                       THEN removeFile(items, request.id)
                       ELSE items
           /\ console' = console \o Times(onMessageLogs(request),
                                           ListenerRegistrations)
    /\ delivered' = delivered + 1
    /\ UNCHANGED <<variant, fvars, svars, vvars, listeners, selections, popup,
                   alarms>>

MaxEvents == 3

\* The download events the browser has fired so far.
EventsSoFar ==
    Cardinality({id \in DOMAIN items : items[id] # "none"})
    + Cardinality({id \in DOMAIN items :
                      items[id] \in {"complete", "interrupted", "removed"}})

\* The browser creates a download, under the next free identifier:
\* downloads.onCreated fires.
DownloadCreated(id, url) ==
    /\ EventsSoFar < MaxEvents
    /\ items[id] = "none"
    /\ \A j \in DOMAIN items : j < id => items[j] # "none"
    /\ items' = [items EXCEPT ![id] = "in_progress"]
    /\ tasks' = tasks \o Dispatch(Task("onCreated",
                                       [id |-> id, url |-> url, finalUrl |-> url]))
    /\ UNCHANGED <<variant, fvars, svars, vvars, tabMsgs, listeners,
                   selections, delivered, popup,
                   console, alarms>>

\* A download completes or is interrupted: downloads.onChanged fires.
DownloadChanged(id, state) ==
    /\ EventsSoFar < MaxEvents
    /\ items[id] = "in_progress"
    /\ items' = [items EXCEPT ![id] = state]
    /\ tasks' = tasks \o Dispatch(Task("onChanged",
                                       [id |-> id, state |-> state]))
    /\ UNCHANGED <<variant, fvars, svars, vvars, tabMsgs, listeners,
                   selections, delivered, popup,
                   console, alarms>>

\* The storage serves the oldest get of the background context.
StorageGet ==
    /\ \E i \in DOMAIN tasks :
          /\ tasks[i].phase = "get"
          /\ \A j \in 1..(i - 1) : tasks[j].phase = "cb"
          /\ tasks' = [tasks EXCEPT ![i] = [tasks[i] EXCEPT !.snap = storage,
                                                            !.phase = "cb"]]
    /\ UNCHANGED <<variant, fvars, svars, vvars, items, tabMsgs, listeners,
                   selections, delivered, popup,
                   console, alarms>>

\* function(data) { links = data.linkToMonitor || []; links.unshift(pageData);
\* storage.set({linkToMonitor: links}) }
onMessageCallback ==
    /\ tasks # <<>>
    /\ Head(tasks).phase = "cb" /\ Head(tasks).handler = "onMessage"
    /\ LET links == <<Head(tasks).arg>> \o Head(tasks).snap.linkToMonitor
       IN  storage' = [storage EXCEPT !.linkToMonitor = links]
    /\ tasks' = Tail(tasks)
    /\ UNCHANGED <<variant, fvars, svars, cryptoLoaded, ver, items, tabMsgs,
                   listeners, selections, delivered, popup,
                   console, alarms>>

\* link.urls.includes(downloadItem.url) || link.urls.includes(downloadItem.finalUrl)
linkMatches(link, downloadItem) ==
    downloadItem.url \in Range(link.urls) \/ downloadItem.finalUrl \in Range(link.urls)

\* A loop over the links that lets the last matching link win.
firstMatchingLinkTakesLast(links, downloadItem) ==
    LET hits == {i \in DOMAIN links : linkMatches(links[i], downloadItem)}
    IN  CHOOSE i \in hits : \A j \in hits : i >= j

\* for (let link of links) { if (link.urls.includes(...)) { ...; break; } }:
\* the position of the link the loop stops at, when there is one.
firstMatchingLink(links, downloadItem) ==
    LET hits == {i \in DOMAIN links : linkMatches(links[i], downloadItem)}
    IN  CHOOSE i \in hits : \A j \in hits : i <= j

\* The callback of onCreated: the first link that lists the download's URL
\* gives the entry of the download; the map is stored and "downloading" sent.
onCreatedCallback ==
    /\ tasks # <<>>
    /\ Head(tasks).phase = "cb" /\ Head(tasks).handler = "onCreated"
    /\ LET links == Head(tasks).snap.linkToMonitor
           downloads == Head(tasks).snap.downloads
           downloadItem == Head(tasks).arg
           hits == {i \in DOMAIN links : linkMatches(links[i], downloadItem)}
       IN  IF hits = {}
           THEN UNCHANGED <<storage, tabMsgs>>
           ELSE LET link == links[firstMatchingLink(links, downloadItem)]
                    entry == [download |-> downloadItem.url,
                              checksum |-> link.checksum,
                              tab |-> link.tab, completed |-> FALSE]
                IN  /\ storage' = [storage EXCEPT !.downloads =
                                      MapPut(downloads, downloadItem.id, entry)]
                    /\ tabMsgs' = Append(tabMsgs, [type |-> "downloading"])
    /\ tasks' = Tail(tasks)
    /\ UNCHANGED <<variant, fvars, svars, cryptoLoaded, ver, items, listeners,
                   selections, delivered, popup,
                   console, alarms>>

\* The callback of onChanged: nothing for a download that is not tracked,
\* "downloadComplete" for a complete one, the entry deleted for an
\* interrupted one.
onChangedCallback ==
    /\ tasks # <<>>
    /\ Head(tasks).phase = "cb" /\ Head(tasks).handler = "onChanged"
    /\ LET downloads == Head(tasks).snap.downloads
           download == Head(tasks).arg
       IN  IF download.id \notin DOMAIN downloads
           THEN UNCHANGED <<storage, tabMsgs>>
           ELSE IF download.state = "complete"
           THEN /\ tabMsgs' = Append(tabMsgs,
                                     [type |-> "downloadComplete",
                                      downloadId |-> download.id,
                                      checksum |-> downloads[download.id].checksum])
                /\ UNCHANGED storage
           ELSE IF download.state = "interrupted"
           THEN /\ storage' = [storage EXCEPT !.downloads =
                                  MapDelete(downloads, download.id)]
                /\ UNCHANGED tabMsgs
           ELSE UNCHANGED <<storage, tabMsgs>>
    /\ tasks' = Tail(tasks)
    /\ UNCHANGED <<variant, fvars, svars, cryptoLoaded, ver, items, listeners,
                   selections, delivered, popup,
                   console, alarms>>

\* The status text after the content script's runtime.onMessage listener
\* handled a message: the cases "downloading", "downloadComplete" and
\* "deleted" replace it (and with it the delete link); the case "error" and
\* the default case only log.
statusOnMessage(shown, message) ==
    CASE message.type = "downloading" ->
             [status |-> "downloading", onclick |-> {}]
      [] message.type = "downloadComplete" ->
             [status |-> "uploadPrompt", onclick |-> {}]
      [] message.type = "deleted" ->
             [status |-> "deleted", onclick |-> {}]
      [] OTHER -> shown

\* The message types the content script's listener has a case for.
KnownMessageTypes == {"downloading", "downloadComplete", "deleted", "error"}

\* default: console.debug("Unknown message: " + message.type); return
contentLogs(message) ==
    IF message.type \in KnownMessageTypes
    THEN <<>>
    ELSE <<[context |-> "content", type |-> message.type]>>

\* The content script's runtime.onMessage listener: "downloadComplete" adds
\* a "change" listener to fileInput; the other messages restyle the popup.
contentOnMessage ==
    /\ tabMsgs # <<>>
    /\ LET message == Head(tabMsgs)
       IN  /\ listeners' = IF message.type = "downloadComplete"
                           THEN Append(listeners,
                                       [checksum |-> message.checksum,
                                        downloadId |-> message.downloadId])
                           ELSE listeners
           /\ popup' = statusOnMessage(popup, message)
           /\ console' = console \o contentLogs(message)
    /\ tabMsgs' = Tail(tabMsgs)
    /\ UNCHANGED <<variant, fvars, svars, vvars, items, tasks, selections,
                   delivered, alarms>>

MaxSelections == 1

\* The user selects a file: every "change" listener of fileInput runs, in
\* the order they were added, and each calls verifyFile, which runs to its
\* first await.
handleFileChange(file) ==
    /\ selections < MaxSelections
    /\ listeners # <<>>
    /\ selections' = selections + 1
    /\ LET started == [i \in DOMAIN listeners |->
                          RunToSuspension(
                              verifyEnter(NewCall(file, listeners[i].checksum,
                                                  listeners[i].downloadId)))]
           last == started[Len(started)]
       IN  /\ ver' = ver \o started
           /\ popup' = last.writes[Len(last.writes)]
    /\ UNCHANGED <<variant, fvars, svars, cryptoLoaded, storage, items, tasks,
                   tabMsgs, listeners, delivered, console, alarms>>

(***************************************************************************)
(* Specification SpecSystem: one page with a checksum and a download link, *)
(* up to MaxDownloads downloads, the background context and the verifier.  *)
(***************************************************************************)

MaxDownloads == 2
DownloadIds == 1..MaxDownloads
DownloadUrls == {UrlZip, UrlTxt}
SelectedFiles == { <<200>> }

SystemPage ==
    [body |-> Parent("BODY", <<Leaf("P", TextGood)>>),
     anchors |-> <<Anchor(TRUE, UrlZip)>>]

InitSystem ==
    /\ variant \in Variants
    /\ page = SystemPage
    /\ scan = [pc |-> "sleeping", checksumValues |-> <<>>,
               checksumAlgos |-> <<>>, urls |-> <<>>]
    /\ outbox = <<>>
    /\ FilterIdle
    /\ VerifyIdle
    /\ items = [id \in DownloadIds |-> "none"]
    /\ tasks = <<>>
    /\ tabMsgs = <<>>
    /\ listeners = <<>>
    /\ selections = 0
    /\ delivered = 0
    /\ popup = InitialPopup
    /\ console = <<>>
    /\ alarms = {}

NextSystem ==
    \/ inspectPageAndSendInfo
    \/ RuntimeMessage
    \/ \E id \in DOMAIN items, url \in DownloadUrls : DownloadCreated(id, url)
    \/ \E id \in DOMAIN items, state \in {"complete", "interrupted"} :
          DownloadChanged(id, state)
    \/ StorageGet
    \/ onMessageCallback
    \/ onCreatedCallback
    \/ onChangedCallback
    \/ contentOnMessage
    \/ \E file \in SelectedFiles : handleFileChange(file)
    \/ \E a \in DOMAIN ver : ChunkLoaded(a)
    \/ \E a \in DOMAIN ver : ChunkFailed(a)
    \/ \E a \in DOMAIN ver : HashAwaited(a)
    \/ \E a \in DOMAIN ver : CleanupRead(a)
    \/ \E a \in DOMAIN ver : CleanupCallback(a)

SpecSystem == InitSystem /\ [][NextSystem]_vars

\* The verification attempts made for download id.
CallsFor(id) == {a \in DOMAIN ver : ver[a].downloadId = id}

\* C5: once the cleanup of a verification for download id has run and the
\* downloads map does not hold id, no later step of either context puts id
\* back into the map.
C5_CleanedEntryStaysAway ==
    [][\A id \in DownloadIds :
           ((\E a \in CallsFor(id) : ver[a].pc = "done")
               /\ id \notin DOMAIN storage.downloads)
           => id \notin DOMAIN storage'.downloads]_vars

\* C6: for every download identifier verifyFile is started at most once.
C6_StartedAtMostOnce ==
    \A id \in DownloadIds : Cardinality(CallsFor(id)) <= 1

\* C17: in the content context at most one call of verifyFile is inside an
\* algorithm attempt (waiting for a chunk or for computeHash's result) and
\* at most one chunk read is outstanding.
C17_OneAttemptAtATime ==
    /\ Cardinality({a \in DOMAIN ver : ver[a].pc \in {"reading", "awaitHash"}}) <= 1
    /\ Cardinality({a \in DOMAIN ver : ver[a].pending # <<>>}) <= 1

\* The messages of one type about one download that wait in the content
\* context's queue.
QueuedFor(type, id) ==
    {k \in DOMAIN tabMsgs :
        tabMsgs[k].type = type /\ tabMsgs[k].downloadId = id}

\* C18: the background context sends downloadComplete at most once for a
\* download that completes, so no two such messages for one download are
\* ever on their way to the content context.
C18_MessageAtMostOnce ==
    \A id \in DOMAIN items :
        Cardinality(QueuedFor("downloadComplete", id)) <= 1

\* Whether every onChanged handler started for download id has run its
\* callback.
ChangeHandled(id) ==
    /\ items[id] \in {"complete", "interrupted"}
    /\ \A k \in DOMAIN tasks :
          ~ (tasks[k].handler = "onChanged" /\ tasks[k].arg.id = id)

\* C20: once the 'complete' state change of a download has been handled its
\* entry is gone or has completed = true, and once its 'interrupted' state
\* change has been handled its entry is gone.
C20_TerminalStateRecorded ==
    \A id \in DOMAIN items :
        (ChangeHandled(id) /\ id \in DOMAIN storage.downloads) =>
            /\ items[id] = "complete"
            /\ storage.downloads[id].completed

\* function keepAlive() { chrome.alarms.create("keepAlive", {when: ...}) }:
\* the alarms that are armed after the call.  Its only caller is the
\* onAlarm listener.
keepAlive(armed) == armed \cup {"keepAlive"}

\* The onAlarm listener, run when the armed alarm `alarm` fires: the alarms
\* armed afterwards.  The listener reads a variable named downloads, and
\* the background script declares none (the maps named downloads are
\* locals of the storage callbacks): the loop throws before the test that
\* would call keepAlive, and the alarm that fired is spent.
onAlarm(armed, alarm) == armed \ {alarm}

\* Whether the downloads map holds a download that is not completed.
TrackedIncomplete ==
    \E id \in DOMAIN storage.downloads : ~ storage.downloads[id].completed

\* C36: while the downloads map holds a download that is not completed,
\* the keepAlive alarm is armed.
C36_KeepAliveWhileTracking ==
    TrackedIncomplete => "keepAlive" \in alarms

\* Whether this step is the callback of an onChanged handler.
IsOnChangedCallback ==
    /\ tasks # <<>>
    /\ Head(tasks).handler = "onChanged"
    /\ Head(tasks).phase = "cb"
    /\ tasks' = Tail(tasks)

\* C34: the callback of an onChanged handler, for a download that is not in
\* the downloads map it read, sends no message and leaves the storage as it
\* is; for an interrupted download of that map it sends no message, and
\* afterwards the stored map is without this download and holds every other
\* download with the entry it had before the callback, and no download it
\* did not hold; a downloadComplete message is sent only by the callback
\* for a download of the map whose state became complete, with the
\* checksum of its entry.
C34_OnChangedFrame ==
    [][IsOnChangedCallback =>
          LET download == Head(tasks).arg
              read == Head(tasks).snap.downloads
              now == storage.downloads
              after == storage'.downloads
          IN  /\ download.id \notin DOMAIN read =>
                     (tabMsgs' = tabMsgs /\ storage' = storage)
              /\ (download.id \in DOMAIN read /\ download.state = "interrupted") =>
                     /\ tabMsgs' = tabMsgs
                     /\ storage'.linkToMonitor = storage.linkToMonitor
                     /\ DOMAIN after = DOMAIN now \ {download.id}
                     /\ \A id \in DOMAIN after : after[id] = now[id]
              /\ tabMsgs' # tabMsgs =>
                     /\ download.state = "complete"
                     /\ download.id \in DOMAIN read
                     /\ tabMsgs' = Append(tabMsgs,
                                          [type |-> "downloadComplete",
                                           downloadId |-> download.id,
                                           checksum |-> read[download.id].checksum])
                     /\ storage' = storage]_vars

(***************************************************************************)
(* Specification SpecLinks: the tab visits up to MaxPageLoads pages that   *)
(* list a download link; their records reach the background context,      *)
(* which stores them, and downloads are created.                           *)
(***************************************************************************)

MaxPageLoads == 2

LinkPages ==
    { SystemPage,
      [body |-> Parent("BODY", <<Leaf("P", TextGood)>>),
       anchors |-> <<Anchor(TRUE, UrlTarGz)>>] }

\* The tab loads another page: its content script starts afresh and will
\* scan the new document.
PageLoad(p) ==
    /\ scan.pc = "done"
    /\ Len(outbox) < MaxPageLoads
    /\ p # page
    /\ \A a \in DOMAIN ver : ver[a].pc = "done"
    /\ page' = p
    /\ scan' = [pc |-> "sleeping", checksumValues |-> <<>>,
                checksumAlgos |-> <<>>, urls |-> <<>>]
    /\ listeners' = <<>>
    /\ popup' = InitialPopup
    /\ UNCHANGED <<variant, fvars, outbox, vvars, items, tasks, tabMsgs,
                   selections, delivered, console, alarms>>

NextLinks ==
    \/ inspectPageAndSendInfo
    \/ \E p \in LinkPages : PageLoad(p)
    \/ RuntimeMessage
    \/ \E id \in DOMAIN items, url \in DownloadUrls : DownloadCreated(id, url)
    \/ StorageGet
    \/ onMessageCallback
    \/ onCreatedCallback
    \/ contentOnMessage

SpecLinks == InitSystem /\ [][NextLinks]_vars

\* C19: once the background context has handled every "download" record
\* the content context sent, each of them is in the stored linkToMonitor
\* list: none was lost.
C19_RecordsAreKept ==
    (/\ delivered = Len(outbox)
     /\ \A k \in DOMAIN tasks : tasks[k].handler # "onMessage")
    => \A i \in DOMAIN outbox :
           \E k \in DOMAIN storage.linkToMonitor :
               /\ storage.linkToMonitor[k].urls = outbox[i].urls
               /\ storage.linkToMonitor[k].checksum = outbox[i].checksum

\* C25: every entry of the downloads map carries the checksum and the tab
\* of a record of linkToMonitor whose urls contain the entry's download URL.
C25_EntryHasMonitoredRecord ==
    \A id \in DOMAIN storage.downloads :
        \E k \in DOMAIN storage.linkToMonitor :
            /\ storage.linkToMonitor[k].checksum = storage.downloads[id].checksum
            /\ storage.linkToMonitor[k].tab = storage.downloads[id].tab
            /\ storage.downloads[id].download
                   \in Range(storage.linkToMonitor[k].urls)

(***************************************************************************)
(* Specification SpecNames: a page that mentions one supported algorithm   *)
(* in one of the spellings the algorithm pattern captures, one download of *)
(* its link, and the verification of that download.                        *)
(***************************************************************************)

NameMentions ==
    { <<"m", "d", "5">>,
      <<"M", "D", "5">>,
      <<"s", "h", "a", "1">>,
      <<"S", "H", "A", "-", "1">>,
      <<"s", "h", "a", "2", "5", "6">>,
      <<"S", "H", "A", " ", "2", "5", "6">>,
      <<"s", "h", "a", "-", "5", "1", "2">>,
      <<"S", "H", "A", " ", "-", " ", "2", "5", "6">>,
      <<"s", "h", "a", " ", " ", "3", "8", "4">>,
      <<"s", "h", "a", "\t", "1">> }

NamePage(mention) ==
    [body |-> Parent("BODY", <<Leaf("P", mention \o <<" ">>
                                          \o Repeat(HexDigits16, 32))>>),
     anchors |-> <<Anchor(TRUE, UrlZip)>>]

InitNames ==
    /\ variant \in Variants
    /\ page \in {NamePage(mention) : mention \in NameMentions}
    /\ scan = [pc |-> "sleeping", checksumValues |-> <<>>,
               checksumAlgos |-> <<>>, urls |-> <<>>]
    /\ outbox = <<>>
    /\ FilterIdle
    /\ VerifyIdle
    /\ items = [id \in {1} |-> "none"]
    /\ tasks = <<>>
    /\ tabMsgs = <<>>
    /\ listeners = <<>>
    /\ selections = 0
    /\ delivered = 0
    /\ popup = InitialPopup
    /\ console = <<>>
    /\ alarms = {}

SpecNames == InitNames /\ [][NextSystem]_vars

IsNameChar(c) == c \notin WhiteSpace \cup {"-"}

\* A mention in lower case and without any hyphen or white space.
Squeezed(mention) == SelectSeq(toLowerCase(mention), IsNameChar)

\* C14: the name verifyFile compares with the five algorithm names is the
\* scraped mention in lower case and without any hyphen or space, so that
\* every mention of a supported algorithm selects it.
C14_MentionSelectsAlgorithm ==
    \A a \in DOMAIN ver :
        \A i \in DOMAIN ver[a].checksum.type :
            /\ canonicalType(ver[a].checksum.type[i])
                  = Squeezed(ver[a].checksum.type[i])
            /\ canonicalType(ver[a].checksum.type[i]) \in SupportedAlgos

(***************************************************************************)
(* Specification SpecPopup: a tracked download has completed and both      *)
(* "downloadComplete" messages are on their way to the content context;    *)
(* the user selects files, the verifier runs, and the user clicks the      *)
(* delete link when the popup offers one.                                  *)
(* Specification SpecStray: the same, but instead of the clicks, messages  *)
(* of a type neither context knows arrive in both contexts.                *)
(***************************************************************************)

MaxClicks == 1
MaxStray == 1

PopupGoodFile == <<200>>
PopupFiles == {PopupGoodFile, <<0>>}

\* The page's checksum: the MD5 digest of PopupGoodFile.
PopupChecksum ==
    [type |-> <<TypeMd5>>,
     value |-> <<SingleShotDigest(CHECKSUM_TYPE_MD5, PopupGoodFile)>>]

\* function deleteFile(id) { chrome.runtime.sendMessage({type: "remove", id}) }
deleteFile(id) == [type |-> "remove", id |-> id]

\* The requests of a type among those sent to the background context.
SentOfType(type) == {i \in DOMAIN outbox : outbox[i].type = type}

\* The messages of unknown type a context has logged.
LoggedBy(context) == {k \in DOMAIN console : console[k].context = context}

\* The user selects a file once the calls of verifyFile made for the
\* selection before have run their cleanup.
SelectFile(file) ==
    /\ \A a \in DOMAIN ver : ver[a].pc = "done"
    /\ handleFileChange(file)

\* The user clicks the delete link: its onclick handler calls deleteFile
\* with the downloadId of the call that attached it.
ClickDelete ==
    /\ popup.onclick # {}
    /\ Cardinality(SentOfType("remove")) < MaxClicks
    /\ \E id \in popup.onclick : outbox' = Append(outbox, deleteFile(id))
    /\ UNCHANGED <<variant, fvars, page, scan, vvars, bvars>>

\* A request of a type the background context has no case for arrives.
StrayRuntimeMessage ==
    /\ Cardinality(SentOfType("unknown")) < MaxStray
    /\ outbox' = Append(outbox, [type |-> "unknown"])
    /\ UNCHANGED <<variant, fvars, page, scan, vvars, bvars>>

\* A message of a type the content script has no case for arrives.
StrayTabMessage ==
    /\ Cardinality(LoggedBy("content")) < MaxStray
    /\ \A k \in DOMAIN tabMsgs : tabMsgs[k].type # "unknown"
    /\ tabMsgs' = Append(tabMsgs, [type |-> "unknown"])
    /\ UNCHANGED <<variant, fvars, svars, vvars, items, tasks, listeners,
                   selections, delivered, popup, console, alarms>>

\* Download d has completed, its entry is in the downloads map and both
\* onChanged callbacks have sent their message.
DownloadCompleted(d) ==
    /\ ver = <<>>
    /\ FilterIdle
    /\ ScanIdle
    /\ storage = [linkToMonitor |->
                      <<[urls |-> <<UrlZip>>, checksum |-> PopupChecksum,
                         tab |-> SenderTab]>>,
                  downloads |-> [id \in {d} |->
                                    TrackedEntry(UrlZip, PopupChecksum,
                                                 SenderTab)]]
    /\ items = [id \in DownloadIds |-> IF id = d THEN "complete" ELSE "none"]
    /\ tabMsgs = [i \in 1..ListenerRegistrations |->
                     [type |-> "downloadComplete", downloadId |-> d,
                      checksum |-> PopupChecksum]]
    /\ tasks = <<>>
    /\ listeners = <<>>
    /\ selections = 0
    /\ delivered = 0
    /\ popup = [status |-> "downloading", onclick |-> {}]
    /\ console = <<>>
    /\ alarms = {}

InitPopup ==
    /\ variant \in Variants
    /\ cryptoLoaded \in BOOLEAN
    /\ \E d \in DownloadIds : DownloadCompleted(d)

NextPopup ==
    \/ contentOnMessage
    \/ \E file \in PopupFiles : SelectFile(file)
    \/ \E a \in DOMAIN ver : ChunkLoaded(a)
    \/ \E a \in DOMAIN ver : ChunkFailed(a)
    \/ \E a \in DOMAIN ver : HashAwaited(a)
    \/ \E a \in DOMAIN ver : CleanupRead(a)
    \/ \E a \in DOMAIN ver : CleanupCallback(a)
    \/ ClickDelete
    \/ RuntimeMessage

SpecPopup == InitPopup /\ [][NextPopup]_vars

\* The calls of verifyFile for download id that have ended with the
\* mismatch outcome.
EndedUnsafe(id) ==
    {a \in DOMAIN ver :
        /\ ver[a].downloadId = id
        /\ Ended(ver[a])
        /\ ver[a].outcome = "unsafe"}

InitStray ==
    /\ variant \in Variants
    /\ cryptoLoaded = TRUE
    /\ DownloadCompleted(1)

NextStray ==
    \/ contentOnMessage
    \/ \E file \in PopupFiles : SelectFile(file)
    \/ \E a \in DOMAIN ver : ChunkLoaded(a)
    \/ \E a \in DOMAIN ver : ChunkFailed(a)
    \/ \E a \in DOMAIN ver : HashAwaited(a)
    \/ \E a \in DOMAIN ver : CleanupRead(a)
    \/ \E a \in DOMAIN ver : CleanupCallback(a)
    \/ RuntimeMessage
    \/ StrayRuntimeMessage
    \/ StrayTabMessage

SpecStray == InitStray /\ [][NextStray]_vars

\* C30: a request of an unknown type is only logged by the background
\* context: handling it makes no storage request (so linkToMonitor and
\* downloads stay as they are), sends no message and removes no file; a
\* message of an unknown type is only logged by the content context:
\* handling it starts no call of verifyFile, adds no listener, sends nothing
\* and leaves the popup as it is.
C30_UnknownTypeOnlyLogged ==
    /\ [][(/\ delivered' = delivered + 1
           /\ outbox[delivered + 1].type \notin KnownRequestTypes)
          => /\ storage' = storage
             /\ tasks' = tasks
             /\ tabMsgs' = tabMsgs
             /\ items' = items
             /\ Len(console') > Len(console)]_vars
    /\ [][(/\ tabMsgs # <<>>
           /\ tabMsgs' = Tail(tabMsgs)
           /\ Head(tabMsgs).type \notin KnownMessageTypes)
          => /\ ver' = ver
             /\ listeners' = listeners
             /\ popup' = popup
             /\ outbox' = outbox
             /\ storage' = storage
             /\ Len(console') > Len(console)]_vars

\* C30's case: each context has handled a message of an unknown type, the
\* content context while the popup offered the delete link.
C30_Witness ==
    /\ LoggedBy("background") # {}
    /\ LoggedBy("content") # {}
    /\ console[Len(console)].context = "content"
    /\ popup.onclick # {}
    /\ storage.downloads # <<>>

(***************************************************************************)
(* Specification SpecTwin: one file and one checksum descriptor are        *)
(* verified by one of the two content scripts and then, once that call has *)
(* run to its end, by the other one.                                       *)
(***************************************************************************)

TwinFile == <<200, 0, 1, 2, 3>>

\* The declared types of the twin runs.
TwinTypes == {TypeMd5, TypeSha1}

\* The page's values of the twin runs: a wrong one, or the file's digest
\* under one of the two algorithms.
TwinValues ==
    { <<JunkValue>>,
      <<SingleShotDigest(CHECKSUM_TYPE_MD5, TwinFile)>>,
      <<SingleShotDigest(CHECKSUM_TYPE_SHA1, TwinFile)>> }

InitTwin ==
    /\ variant \in Variants
    /\ cryptoLoaded \in BOOLEAN
    /\ \E types \in SeqsUpTo(TwinTypes, MaxTypes), values \in TwinValues :
          LET checksum == [type |-> types, value |-> values]
          IN  /\ ver = <<NewCall(TwinFile, checksum, 1)>>
              /\ storage = [linkToMonitor |-> <<>>,
                            downloads |-> [d \in {1} |->
                                              TrackedEntry(UrlZip, checksum, 1)]]
    /\ FilterIdle
    /\ ScanIdle
    /\ BackgroundIdle

\* The other content script takes over and is handed the same file, the
\* same descriptor and the same download identifier.
OtherScript ==
    /\ Len(ver) = 1
    /\ ver[1].pc = "done"
    /\ variant' = CHOOSE other \in Variants : other # variant
    /\ ver' = Append(ver, NewCall(ver[1].file, ver[1].checksum,
                                  ver[1].downloadId))
    /\ UNCHANGED <<fvars, svars, cryptoLoaded, storage, bvars>>

NextTwin ==
    \/ NextVerify
    \/ OtherScript

SpecTwin == InitTwin /\ [][NextTwin]_vars

\* The call that content.js ran and the call that part_000 ran, once both
\* have been made: the second call runs under the script that runs now.
CallOfContent == IF variant = "content" THEN 2 ELSE 1
CallOfPart000 == IF variant = "content" THEN 1 ELSE 2

\* C32: when content.js and part_000 have each verified the same file with
\* the same descriptor to the end, and either no chunk read failed in
\* either call or the only failure hit part_000 in an attempt that comes
\* after the last attempt content.js made, the two calls have the same
\* outcome.
C32_SameOutcomeInBothScripts ==
    (Len(ver) = 2 /\ Ended(ver[1]) /\ Ended(ver[2])) =>
        LET c == ver[CallOfContent]
            p == ver[CallOfPart000]
        IN  (/\ ~ c.readFailed
             /\ (~ p.readFailed \/ p.typeIdx > c.typeIdx))
            => c.outcome = p.outcome

(***************************************************************************)
(* Specification SpecOverlap: two calls of verifyFile in one content       *)
(* context, each for its own file, descriptor and download; either may be  *)
(* entered while the other waits for a chunk, and their reads complete or  *)
(* fail in any order.                                                      *)
(***************************************************************************)

OverlapFiles == << <<200, 0, 1, 2, 3>>, <<7, 7>> >>

OverlapTypes == { <<TypeMd5>>, <<TypeSha1, TypeMd5>>, <<TypeCrc32, TypeSha1>> }

\* The values of a descriptor: a wrong one, the MD5 or SHA-1 digest of the
\* call's own file, or the MD5 digest of the other call's file.
OverlapValues(own, other) ==
    { <<JunkValue>>,
      <<SingleShotDigest(CHECKSUM_TYPE_MD5, own)>>,
      <<SingleShotDigest(CHECKSUM_TYPE_SHA1, own)>>,
      <<SingleShotDigest(CHECKSUM_TYPE_MD5, other)>> }

InitOverlap ==
    /\ variant \in Variants
    /\ cryptoLoaded = TRUE
    /\ \E types1 \in OverlapTypes, types2 \in OverlapTypes :
       \E values1 \in OverlapValues(OverlapFiles[1], OverlapFiles[2]),
          values2 \in OverlapValues(OverlapFiles[2], OverlapFiles[1]) :
          LET checksums == <<[type |-> types1, value |-> values1],
                             [type |-> types2, value |-> values2]>>
          IN  /\ ver = [d \in 1..2 |->
                           NewCall(OverlapFiles[d], checksums[d], d)]
              /\ storage = [linkToMonitor |-> <<>>,
                            downloads |-> [d \in 1..2 |->
                                              TrackedEntry(UrlZip, checksums[d], 1)]]
    /\ FilterIdle
    /\ ScanIdle
    /\ BackgroundIdle

SpecOverlap == InitOverlap /\ [][NextVerify]_vars

\* The outcome of a call that runs alone on file and checksum in a context
\* with CryptoJS, given whether one of its reads fails.
OutcomeAlone(file, checksum, readFails) ==
    IF readFails THEN "error"
    ELSE IF \E i \in DOMAIN checksum.type :
                TypeMatches(checksum.type[i], file, checksum.value)
    THEN "safe"
    ELSE "unsafe"

\* C33: when two calls of verifyFile overlap, the accumulator of each holds
\* the bytes of the call's own file up to its own offset and no other, every
\* digest a call computed is the digest of its own file, its computed set
\* holds these digests only, and a call that has ended has the outcome it
\* would have alone on its own file and descriptor.
C33_OverlappingCallsAreIndependent ==
    \A a \in DOMAIN ver :
        LET v == ver[a]
        IN  /\ v.pc = "reading" =>
                  v.workingHash
                      = FeedChunks(HasherCreate(v.workingHash.algo),
                                   SubSeq(v.file, 1, v.chunkStart), 0)
            /\ \A k \in DOMAIN v.digests :
                  v.digests[k].digest
                      = SingleShotDigest(v.digests[k].algo, v.file)
            /\ Range(v.checksum_value_computed)
                  \subseteq {v.digests[k].digest : k \in DOMAIN v.digests}
            /\ Ended(v) =>
                  v.outcome = OutcomeAlone(v.file, v.checksum, v.readFailed)

\* C33's case: the second call, which declares the digest of the first
\* call's file, ran from its entry to the unsafe outcome while the first
\* call was between its first attempt and the last chunk of its second.
C33_Witness ==
    /\ Len(ver) = 2
    /\ ver[1].pc = "reading"
    /\ ver[1].reads = 4
    /\ Len(ver[1].digests) = 1
    /\ Ended(ver[2])
    /\ ver[2].outcome = "unsafe"
    /\ ver[2].reads = 2
    /\ ver[2].checksum.value
          = <<SingleShotDigest(CHECKSUM_TYPE_MD5, ver[1].file)>>

(***************************************************************************)
(* Specification SpecRecords: two pages that list the same download link   *)
(* with different checksums have been scanned and their records are on     *)
(* their way to the background context; downloads are created.             *)
(***************************************************************************)

RecordsSent ==
    << [type |-> "download", urls |-> <<UrlZip>>,
        checksum |-> [type |-> <<TypeMd5>>, value |-> <<JunkValue>>]],
       [type |-> "download", urls |-> <<UrlTarGz, UrlZip>>,
        checksum |-> [type |-> <<TypeSha1>>, value |-> <<JunkValue>>]] >>

InitRecords ==
    /\ variant \in Variants
    /\ page = [body |-> Parent("BODY", <<>>), anchors |-> <<>>]
    /\ scan = [pc |-> "done", checksumValues |-> <<>>, checksumAlgos |-> <<>>,
               urls |-> <<>>]
    /\ outbox = RecordsSent
    /\ FilterIdle
    /\ VerifyIdle
    /\ items = [id \in DownloadIds |-> "none"]
    /\ tasks = <<>>
    /\ tabMsgs = <<>>
    /\ listeners = <<>>
    /\ selections = 0
    /\ delivered = 0
    /\ popup = InitialPopup
    /\ console = <<>>
    /\ alarms = {}

NextRecords ==
    \/ RuntimeMessage
    \/ \E id \in DOMAIN items, url \in {UrlZip, UrlTarGz, UrlTxt} :
          DownloadCreated(id, url)
    \/ StorageGet
    \/ onMessageCallback
    \/ onCreatedCallback
    \/ contentOnMessage

SpecRecords == InitRecords /\ [][NextRecords]_vars

\* Whether this step is the callback of an onCreated handler.
IsOnCreatedCallback ==
    /\ tasks # <<>>
    /\ Head(tasks).handler = "onCreated"
    /\ Head(tasks).phase = "cb"
    /\ tasks' = Tail(tasks)

\* The place of a stored record in the order the records were registered:
\* the place of its message among the messages sent.
RegisteredAs(record) ==
    CHOOSE i \in DOMAIN outbox :
        outbox[i].urls = record.urls /\ outbox[i].checksum = record.checksum

\* C35: when the callback of an onCreated handler finds records that list
\* the download's URL in the list it read, the stored map afterwards is the
\* map it read plus one entry, under the download's identifier, whose
\* checksum and tab are those of the matching record registered last; no
\* matching record registered earlier decides, and the list read is in the
\* order newest first.
C35_NewestMatchingRecordWins ==
    [][IsOnCreatedCallback =>
          LET links == Head(tasks).snap.linkToMonitor
              read == Head(tasks).snap.downloads
              downloadItem == Head(tasks).arg
              hits == {k \in DOMAIN links : linkMatches(links[k], downloadItem)}
              after == storage'.downloads
          IN  /\ \A j, k \in DOMAIN links :
                    j < k => RegisteredAs(links[j]) >= RegisteredAs(links[k])
              /\ hits = {} => storage' = storage
              /\ hits # {} =>
                    /\ DOMAIN after = DOMAIN read \cup {downloadItem.id}
                    /\ \A id \in DOMAIN read \ {downloadItem.id} :
                          after[id] = read[id]
                    /\ \E k \in hits :
                          /\ \A j \in hits :
                                RegisteredAs(links[k]) >= RegisteredAs(links[j])
                          /\ after[downloadItem.id].checksum = links[k].checksum
                          /\ after[downloadItem.id].tab = links[k].tab
                          /\ after[downloadItem.id].download = downloadItem.url
                    /\ storage'.linkToMonitor = storage.linkToMonitor]_vars

\* C35's case: the list holds the records of both pages, both list the URL
\* of a download, and its entry carries the checksum of the second page's
\* record.
C35_Witness ==
    /\ \E j, k \in DOMAIN storage.linkToMonitor :
          /\ storage.linkToMonitor[j].checksum = RecordsSent[1].checksum
          /\ storage.linkToMonitor[k].checksum = RecordsSent[2].checksum
    /\ \E id \in DOMAIN storage.downloads :
          /\ storage.downloads[id].download = UrlZip
          /\ storage.downloads[id].checksum = RecordsSent[2].checksum
    /\ tasks = <<>>

====
